---- MODULE Spec2Model ----
(***************************************************************************)
(* Cross-file record matcher/differ of comparepdf                          *)
(* (src/src/lib/structured-differ.ts), as called by the compare page       *)
(* (src/src/components/compare-page.tsx).                                  *)
(*                                                                         *)
(* A JavaScript string is modelled as a sequence of one-character strings, *)
(* so that trim, toLowerCase, whitespace collapsing and character bigrams   *)
(* are computed as the code computes them.  A JavaScript Map is modelled as *)
(* the sequence of its entries in insertion order.  `undefined` in a        *)
(* (string | undefined) slot is the value Absent.                           *)
(***************************************************************************)
EXTENDS Integers, Sequences, FiniteSets, TLC

VARIABLES
    allTables,        \* argument: one sequence of ParsedTable per file
    keyColumnIndex,   \* argument: the key column picked in the preview
    pc,               \* position inside compareMultiFiles
    fileCount,        \* line 11
    perFile,          \* line 14
    headers,          \* line 15
    normalizedFiles,  \* line 16
    keyIdx,           \* line 18
    keyMaps,          \* lines 21-28
    allKeys,          \* lines 31-40
    fuzzyMatched,     \* lines 43-60
    ki,               \* loop index of `for (const key of allKeys)` at line 66
    processedKeys,    \* line 64
    results,          \* line 63; sorted in place at line 134
    pushed,           \* history: every record pushed at line 121, with the key of its turn
    summary,          \* line 136
    \* unifyAllHeaders and normalizeRows called on their own
    headerLists,       \* argument of unifyAllHeaders: one header list per file
    unifiedList,      \* unifyAllHeaders(headerLists)
    reunified,        \* unifyAllHeaders([unifiedList])
    srcFile,          \* the file whose rows are normalized, 0 before
    rowsIn,           \* argument rows of normalizeRows
    rowsOut,          \* normalizeRows(rowsIn, headerLists[srcFile], unifiedList)
    headerPc,         \* which of the calls comes next
    \* stringSimilarity called on its own
    simA, simB,       \* the two arguments
    simAB,            \* stringSimilarity(simA, simB)
    simBA,            \* stringSimilarity(simB, simA)
    simPc,
    \* parsePdfToTables, from the text items of the pages onwards
    pageItemSets,     \* lines 353-370: the text items of every page, in emission order
    pdfPc,            \* position inside parsePdfToTables
    page1Lines,       \* line 403
    headerLineIdx,    \* lines 405-415
    pdfHeaders,       \* line 452 (`headers`)
    colBoundaries,    \* line 453
    headerFingerprint,\* line 456
    dataRows,         \* lines 459-481
    lineColIdx,       \* line 486
    mergedRows,       \* line 487
    pdfTables,        \* the ParsedTable[] returned
    \* the compare page (compare-page.tsx); its allTables and keyColumnIndex are the
    \* variables of those names above
    fileSlots,        \* line 25: the file of every slot, 0 for null
    loading,          \* line 29
    step,             \* line 31
    parseJob,         \* the files captured at line 69 by a handleParseFiles that awaits
    previewHeaders,   \* line 35
    result,           \* line 39: the record saved at line 133, <<>> for null
    \* discoverColumns called on its own
    xPositions,       \* the x of every item, in emission order
    columns,          \* discoverColumns(items)
    colPc

differVars == <<allTables, keyColumnIndex, pc, fileCount, perFile, headers, normalizedFiles,
                keyIdx, keyMaps, allKeys, fuzzyMatched, ki, processedKeys, results,
                pushed, summary>>
headerVars == <<headerLists, unifiedList, reunified, srcFile, rowsIn, rowsOut, headerPc>>
simVars == <<simA, simB, simAB, simBA, simPc>>
pdfVars == <<pageItemSets, pdfPc, page1Lines, headerLineIdx, pdfHeaders, colBoundaries,
             headerFingerprint, dataRows, lineColIdx, mergedRows, pdfTables>>

pageVars == <<fileSlots, loading, step, parseJob, previewHeaders, result>>
colVars == <<xPositions, columns, colPc>>

vars == <<differVars, headerVars, simVars, pdfVars, pageVars, colVars>>

-----------------------------------------------------------------------------
(* Bounds of the model *)

MaxFiles == 3
MaxTables == 1
MaxRows == 2
MaxTotalRows == 3

(* compare-page.tsx: handleCompare returns early when fewer than two files
   were parsed, so compareMultiFiles always receives at least two. *)
MinFiles == 2

-----------------------------------------------------------------------------
(* Strings *)

(* `undefined`: a sequence no string of characters can equal *)
Absent == <<"undefined">>

Min(a, b) == IF a < b THEN a ELSE b
Range(s) == {s[i] : i \in 1..Len(s)}

(* \s and trim(): the blank and the tab are the whitespace of the model *)
IsSpace(c) == c \in {" ", "\t"}

IsDigit(c) == c \in {"0", "1", "2", "3", "4", "5", "6", "7", "8", "9"}

LowerChar(c) ==
    CASE c = "A" -> "a" [] c = "B" -> "b" [] c = "C" -> "c" [] c = "D" -> "d"
      [] c = "E" -> "e" [] c = "F" -> "f" [] c = "G" -> "g" [] c = "H" -> "h"
      [] c = "I" -> "i" [] c = "J" -> "j" [] c = "K" -> "k" [] c = "L" -> "l"
      [] c = "M" -> "m" [] c = "N" -> "n" [] c = "O" -> "o" [] c = "P" -> "p"
      [] c = "Q" -> "q" [] c = "R" -> "r" [] c = "S" -> "s" [] c = "T" -> "t"
      [] c = "U" -> "u" [] c = "V" -> "v" [] c = "W" -> "w" [] c = "X" -> "x"
      [] c = "Y" -> "y" [] c = "Z" -> "z"
      [] OTHER -> c

toLowerCase(s) == [i \in 1..Len(s) |-> LowerChar(s[i])]

RECURSIVE trimStart(_)
trimStart(s) ==
    IF s # <<>> /\ IsSpace(Head(s)) THEN trimStart(Tail(s)) ELSE s

RECURSIVE trimEnd(_)
trimEnd(s) ==
    IF s # <<>> /\ IsSpace(s[Len(s)]) THEN trimEnd(SubSeq(s, 1, Len(s) - 1)) ELSE s

trim(s) == trimEnd(trimStart(s))

(* replace(/\s+/g, " "): every maximal run of whitespace becomes one space *)
RECURSIVE collapseWhitespace(_)
collapseWhitespace(s) ==
    IF s = <<>> THEN <<>>
    ELSE IF IsSpace(Head(s))
         THEN <<" ">> \o collapseWhitespace(trimStart(Tail(s)))
         ELSE <<Head(s)>> \o collapseWhitespace(Tail(s))

normalizeKey(val) == collapseWhitespace(toLowerCase(trim(val)))

normalizeHeader(h) == trim(toLowerCase(h))

-----------------------------------------------------------------------------
(* stringSimilarity: the result is the fraction num/den, kept exact *)

Bigrams(a) == {SubSeq(a, i, i + 1) : i \in 1..(Len(a) - 1)}

(* mutant: no shortcut for equal strings, and the bigrams of b counted as a set *)
SimilarityOfBigramSets(a, b) ==
    IF Len(a) < 2 \/ Len(b) < 2 THEN [num |-> 0, den |-> 1]
    ELSE [num |-> 2 * Cardinality(Bigrams(a) \cap Bigrams(b)),
          den |-> (Len(a) - 1) + (Len(b) - 1)]

stringSimilarity(a, b) ==
    IF a = b THEN [num |-> 1, den |-> 1]
    ELSE IF Len(a) < 2 \/ Len(b) < 2 THEN [num |-> 0, den |-> 1]
    ELSE LET bigramsA == Bigrams(a)
             intersection ==
                 Cardinality({i \in 1..(Len(b) - 1) : SubSeq(b, i, i + 1) \in bigramsA})
         IN  [num |-> 2 * intersection, den |-> (Len(a) - 1) + (Len(b) - 1)]

SimGreater(x, y) == x.num * y.den > y.num * x.den
SimZero == [num |-> 0, den |-> 1]
FuzzyThresholdNum == 3
FuzzyThresholdDen == 5
SimAtLeastThreshold(x) == x.num * FuzzyThresholdDen >= FuzzyThresholdNum * x.den

-----------------------------------------------------------------------------
(* mergeTables, unifyAllHeaders, normalizeRows *)

RECURSIVE PadRow(_, _)
PadRow(row, n) == IF Len(row) < n THEN PadRow(Append(row, <<>>), n) ELSE row

RECURSIVE BestHeaders(_, _, _)
BestHeaders(tables, i, best) ==
    IF i > Len(tables) THEN best
    ELSE BestHeaders(tables, i + 1,
                     IF Len(tables[i].headers) > Len(best) THEN tables[i].headers ELSE best)

RECURSIVE ConcatRows(_, _, _)
ConcatRows(tables, i, n) ==
    IF i > Len(tables) THEN <<>>
    ELSE [r \in 1..Len(tables[i].rows) |-> PadRow(tables[i].rows[r], n)]
         \o ConcatRows(tables, i + 1, n)

mergeTables(tables) ==
    IF Len(tables) = 0 THEN [headers |-> <<>>, rows |-> <<>>]
    ELSE IF Len(tables) = 1 THEN [headers |-> tables[1].headers, rows |-> tables[1].rows]
    ELSE LET bestHeaders == BestHeaders(tables, 1, tables[1].headers)
         IN  [headers |-> bestHeaders,
              rows |-> ConcatRows(tables, 1, Len(bestHeaders))]

RECURSIVE Flatten(_)
Flatten(ss) == IF ss = <<>> THEN <<>> ELSE Head(ss) \o Flatten(Tail(ss))

(* mutant: the new header is compared as written, not normalized *)
HeaderExistsExact(hs, h) == \E j \in 1..Len(hs) : hs[j] = h

HeaderExists(hs, h) == \E j \in 1..Len(hs) : normalizeHeader(hs[j]) = normalizeHeader(h)

(* mutant: headers.unshift(h) in the place of headers.push(h) *)
RECURSIVE UnifyFromUnshift(_, _)
UnifyFromUnshift(flat, acc) ==
    IF flat = <<>> THEN acc
    ELSE UnifyFromUnshift(Tail(flat),
                          IF HeaderExists(acc, Head(flat)) THEN acc ELSE <<Head(flat)>> \o acc)

RECURSIVE UnifyFrom(_, _)
UnifyFrom(flat, acc) ==
    IF flat = <<>> THEN acc
    ELSE UnifyFrom(Tail(flat),
                   IF HeaderExists(acc, Head(flat)) THEN acc ELSE Append(acc, Head(flat)))

unifyAllHeaders(sets) == UnifyFrom(Flatten(sets), <<>>)

(* findIndex: the first position whose normalized header equals headerNorm, 0 for -1 *)
FindHeaderIndex(unifiedHeaders, headerNorm) ==
    IF \E j \in 1..Len(unifiedHeaders) : normalizeHeader(unifiedHeaders[j]) = headerNorm
    THEN CHOOSE j \in 1..Len(unifiedHeaders) :
             /\ normalizeHeader(unifiedHeaders[j]) = headerNorm
             /\ \A k \in 1..(j - 1) : normalizeHeader(unifiedHeaders[k]) # headerNorm
    ELSE 0

RECURSIVE ProjectRow(_, _, _, _, _)
ProjectRow(row, originalHeaders, unifiedHeaders, i, newRow) ==
    IF i > Len(originalHeaders) \/ i > Len(row) THEN newRow
    ELSE LET targetIdx == FindHeaderIndex(unifiedHeaders, normalizeHeader(originalHeaders[i]))
         IN  ProjectRow(row, originalHeaders, unifiedHeaders, i + 1,
                        IF targetIdx >= 1 THEN [newRow EXCEPT ![targetIdx] = row[i]]
                        ELSE newRow)

normalizeRows(rows, originalHeaders, unifiedHeaders) ==
    [r \in 1..Len(rows) |->
        ProjectRow(rows[r], originalHeaders, unifiedHeaders, 1,
                   [j \in 1..Len(unifiedHeaders) |-> <<>>])]

-----------------------------------------------------------------------------
(* Key maps, key universe, fuzzy aliases *)

MapHas(m, k) == \E j \in 1..Len(m) : m[j].key = k
MapGet(m, k) == m[CHOOSE j \in 1..Len(m) : m[j].key = k].value

(* rows[i][keyIdx] ?? "": keyIdx is 0-based; an index outside the row reads undefined *)
KeyCell(row, idx) == IF idx >= 0 /\ idx < Len(row) THEN row[idx + 1] ELSE <<>>

(* mutant: map.set without the has() test, the last row of a key wins *)
RECURSIVE BuildKeyMapLastWins(_, _, _, _)
BuildKeyMapLastWins(rows, idx, i, map) ==
    IF i > Len(rows) THEN map
    ELSE LET key == normalizeKey(KeyCell(rows[i], idx))
         IN  BuildKeyMapLastWins(rows, idx, i + 1,
                 IF key = <<>> THEN map
                 ELSE IF MapHas(map, key)
                      THEN [j \in 1..Len(map) |->
                               IF map[j].key = key THEN [key |-> key, value |-> i] ELSE map[j]]
                      ELSE Append(map, [key |-> key, value |-> i]))

(* mutant: the test `key &&` is left out, the empty key is mapped like any other *)
RECURSIVE BuildKeyMapKeepEmpty(_, _, _, _)
BuildKeyMapKeepEmpty(rows, idx, i, map) ==
    IF i > Len(rows) THEN map
    ELSE LET key == normalizeKey(KeyCell(rows[i], idx))
         IN  BuildKeyMapKeepEmpty(rows, idx, i + 1,
                                  IF ~MapHas(map, key)
                                  THEN Append(map, [key |-> key, value |-> i])
                                  ELSE map)

RECURSIVE BuildKeyMap(_, _, _, _)
BuildKeyMap(rows, idx, i, map) ==
    IF i > Len(rows) THEN map
    ELSE LET key == normalizeKey(KeyCell(rows[i], idx))
         IN  BuildKeyMap(rows, idx, i + 1,
                         IF key # <<>> /\ ~MapHas(map, key)
                         THEN Append(map, [key |-> key, value |-> i])
                         ELSE map)

RECURSIVE CollectKeys(_, _)
CollectKeys(entries, acc) ==
    IF entries = <<>> THEN acc
    ELSE CollectKeys(Tail(entries),
                     IF Head(entries).key \in Range(acc) THEN acc
                     ELSE Append(acc, Head(entries).key))

PresentCount(maps, key) == Cardinality({f \in 1..Len(maps) : MapHas(maps[f], key)})

(* lines 48-57: the scan for the best candidate; best = [match, sim] *)
RECURSIVE BestMatch(_, _, _, _)
BestMatch(key, keys, j, best) ==
    IF j > Len(keys) THEN best
    ELSE IF keys[j] = key THEN BestMatch(key, keys, j + 1, best)
    ELSE LET sim == stringSimilarity(key, keys[j])
         IN  BestMatch(key, keys, j + 1,
                       IF SimGreater(sim, best.sim) /\ SimAtLeastThreshold(sim)
                       THEN [match |-> keys[j], sim |-> sim]
                       ELSE best)

RECURSIVE FuzzyMatchAll(_, _, _, _)
FuzzyMatchAll(keys, maps, i, fm) ==
    IF i > Len(keys) THEN fm
    ELSE LET key == keys[i]
             best == BestMatch(key, keys, 1, [match |-> <<>>, sim |-> SimZero])
         IN  FuzzyMatchAll(keys, maps, i + 1,
                           IF PresentCount(maps, key) = 1 /\ best.match # <<>>
                           THEN Append(fm, [key |-> key, value |-> best.match])
                           ELSE fm)

-----------------------------------------------------------------------------
(* One iteration of the record-building loop, lines 66-130 *)

FuzzyGet(fm, key) == IF MapHas(fm, key) THEN MapGet(fm, key) ELSE key

RECURSIVE AliasesOf(_, _, _)
AliasesOf(fm, resolvedKey, j) ==
    IF j > Len(fm) THEN <<>>
    ELSE (IF fm[j].value = resolvedKey /\ fm[j].key # resolvedKey
          THEN <<fm[j].key>> ELSE <<>>) \o AliasesOf(fm, resolvedKey, j + 1)

(* mutant: every aliased key is gathered, whatever key it is aliased to *)
RelatedKeysOfAnyTarget(fm, resolvedKey) ==
    <<resolvedKey>> \o SelectSeq([j \in 1..Len(fm) |-> fm[j].key], LAMBDA k : k # resolvedKey)

RelatedKeys(fm, resolvedKey) == <<resolvedKey>> \o AliasesOf(fm, resolvedKey, 1)

(* lines 84-88: the row index under the first related key the file holds, 0 for undefined *)
RECURSIVE FindRowIdx(_, _, _)
FindRowIdx(map, relatedKeys, j) ==
    IF j > Len(relatedKeys) THEN 0
    ELSE IF MapHas(map, relatedKeys[j]) THEN MapGet(map, relatedKeys[j])
    ELSE FindRowIdx(map, relatedKeys, j + 1)

(* mutant: the scan over the files stops one file short *)
RECURSIVE FilterFilesDropLast(_, _, _)
FilterFilesDropLast(nFiles, f, keep) ==
    IF f >= nFiles - 1 THEN <<>>
    ELSE (IF f \in keep THEN <<f>> ELSE <<>>) \o FilterFilesDropLast(nFiles, f + 1, keep)

(* file indices are 0-based in presentIn and missingFrom, as in the code *)
RECURSIVE FilterFiles(_, _, _)
FilterFiles(nFiles, f, keep) ==
    IF f >= nFiles THEN <<>>
    ELSE (IF f \in keep THEN <<f>> ELSE <<>>) \o FilterFiles(nFiles, f + 1, keep)

CellOf(row, hIdx) == IF hIdx <= Len(row) THEN row[hIdx] ELSE <<>>

NonAbsent(values) == SelectSeq(values, LAMBDA v : v # Absent)

AllEqualFirst(vals) == \A j \in 1..Len(vals) : vals[j] = vals[1]

(* mutant: changed forgets that the record is missing from a file *)
BuildCellIgnoringMissing(h, hIdx, fileRows, missingFrom) ==
    LET values == [f \in 1..Len(fileRows) |->
                      IF fileRows[f] # Absent THEN trim(CellOf(fileRows[f], hIdx)) ELSE Absent]
        nonEmpty == NonAbsent(values)
        allSame == Len(nonEmpty) > 0 /\ AllEqualFirst(nonEmpty)
    IN  [header |-> h, values |-> values, changed |-> ~allSame]

(* mutant: the slot of a file without the record is the empty string, not undefined *)
BuildCellEmptyForAbsent(h, hIdx, fileRows, missingFrom) ==
    LET values == [f \in 1..Len(fileRows) |->
                      IF fileRows[f] # Absent THEN trim(CellOf(fileRows[f], hIdx)) ELSE <<>>]
        nonEmpty == NonAbsent(values)
        allSame == Len(nonEmpty) > 0 /\ AllEqualFirst(nonEmpty)
    IN  [header |-> h, values |-> values, changed |-> (~allSame \/ Len(missingFrom) > 0)]

BuildCell(h, hIdx, fileRows, missingFrom) ==
    LET values == [f \in 1..Len(fileRows) |->
                      IF fileRows[f] # Absent THEN trim(CellOf(fileRows[f], hIdx)) ELSE Absent]
        nonEmpty == NonAbsent(values)
        allSame == Len(nonEmpty) > 0 /\ AllEqualFirst(nonEmpty)
    IN  [header |-> h, values |-> values, changed |-> (~allSame \/ Len(missingFrom) > 0)]

(* mutant: a difference is looked for only among more than two values *)
CellHasChangesAboveTwo(c) ==
    LET vals == NonAbsent(c.values)
    IN  Len(vals) > 2 /\ ~AllEqualFirst(vals)

CellHasChanges(c) ==
    LET vals == NonAbsent(c.values)
    IN  Len(vals) > 1 /\ ~AllEqualFirst(vals)

StatusOf(missingFrom, cells) ==
    IF Len(missingFrom) > 0 THEN "missing"
    ELSE IF \E j \in 1..Len(cells) : CellHasChanges(cells[j]) THEN "modified"
    ELSE "identical"

BuildRecordFor(resolvedKey, fm, maps, files, hdrs) ==
    LET nFiles == Len(files)
        relatedKeys == RelatedKeys(fm, resolvedKey)
        rowIdx == [f \in 1..nFiles |-> FindRowIdx(maps[f], relatedKeys, 1)]
        present == {f - 1 : f \in {g \in 1..nFiles : rowIdx[g] # 0}}
        presentIn == FilterFiles(nFiles, 0, present)
        fileRows == [f \in 1..nFiles |->
                        IF rowIdx[f] # 0 THEN files[f][rowIdx[f]] ELSE Absent]
        missingFrom == FilterFiles(nFiles, 0, (0..(nFiles - 1)) \ Range(presentIn))
        cells == [hIdx \in 1..Len(hdrs) |-> BuildCell(hdrs[hIdx], hIdx, fileRows, missingFrom)]
    IN  [status |-> StatusOf(missingFrom, cells),
         keyValue |-> resolvedKey,
         presentIn |-> presentIn,
         missingFrom |-> missingFrom,
         cells |-> cells]

-----------------------------------------------------------------------------
(* results.sort((a, b) => order[a.status] - order[b.status]): a stable sort *)

StatusOrder(st) == CASE st = "missing" -> 0 [] st = "modified" -> 1 [] OTHER -> 2

CompareStatus(a, b) == StatusOrder(a.status) - StatusOrder(b.status)

(* mutant: an unstable sort, r goes in front of the elements that compare equal *)
RECURSIVE InsertSortedBeforeEqual(_, _)
InsertSortedBeforeEqual(sorted, r) ==
    IF sorted = <<>> THEN <<r>>
    ELSE IF CompareStatus(Head(sorted), r) >= 0 THEN <<r>> \o sorted
    ELSE <<Head(sorted)>> \o InsertSortedBeforeEqual(Tail(sorted), r)

(* insert r behind every element that does not compare greater than it *)
RECURSIVE InsertSorted(_, _)
InsertSorted(sorted, r) ==
    IF sorted = <<>> THEN <<r>>
    ELSE IF CompareStatus(Head(sorted), r) > 0 THEN <<r>> \o sorted
    ELSE <<Head(sorted)>> \o InsertSorted(Tail(sorted), r)

RECURSIVE SortFrom(_, _, _)
SortFrom(rs, i, sorted) ==
    IF i > Len(rs) THEN sorted ELSE SortFrom(rs, i + 1, InsertSorted(sorted, rs[i]))

SortByStatus(rs) == SortFrom(rs, 1, <<>>)

-----------------------------------------------------------------------------
(* calculateSummary *)

(* mutant: Math.floor in the place of Math.round *)
MathFloor(num, den) == num \div den

(* Math.round(x) for x = num/den >= 0: the nearest integer, halves upwards.  The
   code rounds the double (identical / total) * 100; the double product lands on the
   same integer as the exact quotient for every total below 40 (at 23 of 40 the
   double is 57.49999999999999 and rounds to 57, still a nearest integer of 57.5) *)
MathRound(num, den) == (2 * num + den) \div (2 * den)

MatchScore(identical, totalItems) ==
    IF totalItems > 0 THEN MathRound(identical * 100, totalItems) ELSE 100

(* mutant: only the first file of row.missingFrom is counted *)
BumpFirstMissing(missingPerFile, missingFrom, j) ==
    IF j > Len(missingFrom) THEN missingPerFile
    ELSE [missingPerFile EXCEPT ![missingFrom[j] + 1] = @ + 1]

(* lines 236-238: missingPerFile[f]++ for every f of row.missingFrom *)
RECURSIVE BumpMissing(_, _, _)
BumpMissing(missingPerFile, missingFrom, j) ==
    IF j > Len(missingFrom) THEN missingPerFile
    ELSE BumpMissing([missingPerFile EXCEPT ![missingFrom[j] + 1] = @ + 1], missingFrom, j + 1)

(* lines 234-239: the loop over the rows *)
RECURSIVE CountRows(_, _, _)
CountRows(rows, i, sm) ==
    IF i > Len(rows) THEN sm
    ELSE CountRows(rows, i + 1,
                   [sm EXCEPT ![rows[i].status] = @ + 1,
                              !.missingPerFile = BumpMissing(@, rows[i].missingFrom, 1)])

EmptySummary(totalItems, nFiles) ==
    [totalItems |-> totalItems, identical |-> 0, modified |-> 0, missing |-> 0,
     matchScore |-> 0, missingPerFile |-> [f \in 1..nFiles |-> 0]]

calculateSummary(rows, nFiles) ==
    LET counted == CountRows(rows, 1, EmptySummary(Len(rows), nFiles))
    IN  [counted EXCEPT !.matchScore = MatchScore(counted.identical, counted.totalItems)]

-----------------------------------------------------------------------------
(* Inputs: what the parsers hand to the compare page *)

(* the usual column layout, and one with the columns swapped and the key header
   written differently *)
MainLayout == << <<"I", "d">>, <<"Q", "t", "y">> >>
SwappedLayout == << <<"Q", "t", "y">>, <<" ", "i", "d">> >>

(* rows as [id, qty]: keys equal up to case and blanks, keys one bigram apart,
   a key with inner blanks, a blank key; quantities equal up to blanks, and unequal *)
RowPool ==
    { [id |-> <<"a", "a">>,           qty |-> <<"1">>],
      [id |-> <<" ", "A", "a">>,      qty |-> <<"1", " ">>],
      [id |-> <<"a", "a">>,           qty |-> <<"2">>],
      [id |-> <<"a", "a", "b">>,      qty |-> <<"1">>],
      [id |-> <<"a", "a", "a">>,      qty |-> <<"1">>],
      [id |-> <<"a", " ", " ", "b">>, qty |-> <<"2">>],
      [id |-> <<" ">>,                qty |-> <<"1">>] }

IsKeyHeader(h) == normalizeHeader(h) = <<"i", "d">>

RowsFor(hs) == {[c \in 1..Len(hs) |-> IF IsKeyHeader(hs[c]) THEN r.id ELSE r.qty] : r \in RowPool}

TablesWithRows(layouts, k) ==
    UNION {{[headers |-> hs, rows |-> rs] : rs \in [1..k -> RowsFor(hs)]} : hs \in layouts}

(* the files of t tables that hold k rows in all, at most MaxRows per table *)
RECURSIVE FilesWith(_, _, _)
FilesWith(layouts, t, k) ==
    IF t = 0 THEN (IF k = 0 THEN {<<>>} ELSE {})
    ELSE UNION {{<<tb>> \o rest : tb \in TablesWithRows(layouts, j),
                                   rest \in FilesWith(layouts, t - 1, k - j)} :
                j \in 0..Min(k, MaxRows)}

FilesWithRows(layouts, k) == UNION {FilesWith(layouts, t, k) : t \in 0..MaxTables}

(* the inputs of n files that hold at most budget rows in all; every file but the
   last has the usual layout *)
RECURSIVE Inputs(_, _)
Inputs(n, budget) ==
    IF n = 0 THEN {<<>>}
    ELSE LET layouts == IF n = 1 THEN {MainLayout, SwappedLayout} ELSE {MainLayout}
         IN  UNION {{<<file>> \o rest : file \in FilesWithRows(layouts, k),
                                        rest \in Inputs(n - 1, budget - k)} :
                    k \in 0..Min(budget, MaxRows * MaxTables)}

(* handleParseFiles, compare-page.tsx lines 82-98: the preview shows the headers of
   the first table of the first file and the user picks one of its columns *)
PreviewHeaders(tables) ==
    IF Len(tables) > 0 /\ Len(tables[1]) > 0 THEN tables[1][1].headers ELSE <<>>

KeyColumnChoices(tables) ==
    IF Len(PreviewHeaders(tables)) = 0 THEN {0} ELSE 0..(Len(PreviewHeaders(tables)) - 1)

-----------------------------------------------------------------------------
(* The parts of the state a run does not use stay as they are here *)

IdleDiffer ==
    /\ allTables = <<>>
    /\ keyColumnIndex = 0
    /\ pc = "idle"
    /\ fileCount = 0
    /\ perFile = <<>>
    /\ headers = <<>>
    /\ normalizedFiles = <<>>
    /\ keyIdx = 0
    /\ keyMaps = <<>>
    /\ allKeys = <<>>
    /\ fuzzyMatched = <<>>
    /\ ki = 1
    /\ processedKeys = {}
    /\ results = <<>>
    /\ pushed = <<>>
    /\ summary = [totalItems |-> 0, identical |-> 0, modified |-> 0, missing |-> 0,
                  matchScore |-> 0, missingPerFile |-> <<>>]

IdleHeaders ==
    /\ headerLists = <<>>
    /\ unifiedList = <<>>
    /\ reunified = <<>>
    /\ srcFile = 0
    /\ rowsIn = <<>>
    /\ rowsOut = <<>>
    /\ headerPc = "idle"

IdleSim ==
    /\ simA = <<>>
    /\ simB = <<>>
    /\ simAB = [num |-> 0, den |-> 1]
    /\ simBA = [num |-> 0, den |-> 1]
    /\ simPc = "idle"

IdlePdf ==
    /\ pageItemSets = <<>>
    /\ pdfPc = "idle"
    /\ page1Lines = <<>>
    /\ headerLineIdx = 0
    /\ pdfHeaders = <<>>
    /\ colBoundaries = <<>>
    /\ headerFingerprint = <<>>
    /\ dataRows = <<>>
    /\ lineColIdx = 0
    /\ mergedRows = <<>>
    /\ pdfTables = <<>>

IdlePage ==
    /\ fileSlots = <<>>
    /\ loading = FALSE
    /\ step = "idle"
    /\ parseJob = <<>>
    /\ previewHeaders = <<>>
    /\ result = <<>>

IdleColumns ==
    /\ xPositions = <<>>
    /\ columns = <<>>
    /\ colPc = "idle"

-----------------------------------------------------------------------------
(* compareMultiFiles, step by step *)

Init ==
    /\ allTables \in UNION {Inputs(n, MaxTotalRows) : n \in MinFiles..MaxFiles}
    /\ keyColumnIndex \in KeyColumnChoices(allTables)
    /\ pc = "start"
    /\ fileCount = 0
    /\ perFile = <<>>
    /\ headers = <<>>
    /\ normalizedFiles = <<>>
    /\ keyIdx = 0
    /\ keyMaps = <<>>
    /\ allKeys = <<>>
    /\ fuzzyMatched = <<>>
    /\ ki = 1
    /\ processedKeys = {}
    /\ results = <<>>
    /\ pushed = <<>>
    /\ summary = EmptySummary(0, 0)
    /\ IdleHeaders
    /\ IdleSim
    /\ IdlePdf
    /\ IdlePage
    /\ IdleColumns

(* lines 11-18 *)
MergeAndUnify ==
    /\ pc = "start"
    /\ LET merged == [f \in 1..Len(allTables) |-> mergeTables(allTables[f])]
           unified == unifyAllHeaders([f \in 1..Len(merged) |-> merged[f].headers])
       IN  /\ perFile' = merged
           /\ headers' = unified
           /\ normalizedFiles' =
                  [f \in 1..Len(merged) |-> normalizeRows(merged[f].rows, merged[f].headers, unified)]
           /\ keyIdx' = Min(keyColumnIndex, Len(unified) - 1)
    /\ fileCount' = Len(allTables)
    /\ pc' = "keymaps"
    /\ UNCHANGED <<headerVars, simVars, pdfVars, pageVars, colVars, allTables, keyColumnIndex, keyMaps, allKeys, fuzzyMatched, ki,
                   processedKeys, results, pushed, summary>>

(* lines 21-28 *)
BuildKeyMaps ==
    /\ pc = "keymaps"
    /\ keyMaps' = [f \in 1..Len(normalizedFiles) |->
                      BuildKeyMap(normalizedFiles[f], keyIdx, 1, <<>>)]
    /\ pc' = "collect"
    /\ UNCHANGED <<headerVars, simVars, pdfVars, pageVars, colVars, allTables, keyColumnIndex, fileCount, perFile, headers, normalizedFiles, keyIdx,
                   allKeys, fuzzyMatched, ki, processedKeys, results, pushed, summary>>

(* lines 31-40 *)
CollectAllKeys ==
    /\ pc = "collect"
    /\ allKeys' = CollectKeys(Flatten(keyMaps), <<>>)
    /\ pc' = "fuzzy"
    /\ UNCHANGED <<headerVars, simVars, pdfVars, pageVars, colVars, allTables, keyColumnIndex, fileCount, perFile, headers, normalizedFiles, keyIdx,
                   keyMaps, fuzzyMatched, ki, processedKeys, results, pushed, summary>>

(* lines 43-60 *)
FuzzyMatch ==
    /\ pc = "fuzzy"
    /\ fuzzyMatched' = FuzzyMatchAll(allKeys, keyMaps, 1, <<>>)
    /\ ki' = 1
    /\ pc' = "build"
    /\ UNCHANGED <<headerVars, simVars, pdfVars, pageVars, colVars, allTables, keyColumnIndex, fileCount, perFile, headers, normalizedFiles, keyIdx,
                   keyMaps, allKeys, processedKeys, results, pushed, summary>>

(* line 67: the key was gathered into an earlier record *)
SkipProcessedKey ==
    /\ pc = "build"
    /\ ki <= Len(allKeys)
    /\ allKeys[ki] \in processedKeys
    /\ ki' = ki + 1
    /\ UNCHANGED <<headerVars, simVars, pdfVars, pageVars, colVars, allTables, keyColumnIndex, pc, fileCount, perFile, headers, normalizedFiles, keyIdx,
                   keyMaps, allKeys, fuzzyMatched, processedKeys, results, pushed, summary>>

(* lines 70-71: the key it is aliased to was gathered into an earlier record *)
SkipResolvedKey ==
    /\ pc = "build"
    /\ ki <= Len(allKeys)
    /\ allKeys[ki] \notin processedKeys
    /\ LET resolvedKey == FuzzyGet(fuzzyMatched, allKeys[ki])
       IN  resolvedKey \in processedKeys /\ resolvedKey # allKeys[ki]
    /\ ki' = ki + 1
    /\ UNCHANGED <<headerVars, simVars, pdfVars, pageVars, colVars, allTables, keyColumnIndex, pc, fileCount, perFile, headers, normalizedFiles, keyIdx,
                   keyMaps, allKeys, fuzzyMatched, processedKeys, results, pushed, summary>>

(* lines 73-129 *)
BuildRecord ==
    /\ pc = "build"
    /\ ki <= Len(allKeys)
    /\ allKeys[ki] \notin processedKeys
    /\ LET resolvedKey == FuzzyGet(fuzzyMatched, allKeys[ki])
           record == BuildRecordFor(resolvedKey, fuzzyMatched, keyMaps, normalizedFiles, headers)
       IN  /\ ~(resolvedKey \in processedKeys /\ resolvedKey # allKeys[ki])
           /\ results' = Append(results, record)
           /\ pushed' = Append(pushed, [key |-> allKeys[ki], record |-> record])
           /\ processedKeys' = processedKeys \cup Range(RelatedKeys(fuzzyMatched, resolvedKey))
    /\ ki' = ki + 1
    /\ UNCHANGED <<headerVars, simVars, pdfVars, pageVars, colVars, allTables, keyColumnIndex, pc, fileCount, perFile, headers, normalizedFiles, keyIdx,
                   keyMaps, allKeys, fuzzyMatched, summary>>

(* lines 132-134 *)
SortResults ==
    /\ pc = "build"
    /\ ki > Len(allKeys)
    /\ results' = SortByStatus(results)
    /\ pc' = "summary"
    /\ UNCHANGED <<headerVars, simVars, pdfVars, pageVars, colVars, allTables, keyColumnIndex, fileCount, perFile, headers, normalizedFiles, keyIdx,
                   keyMaps, allKeys, fuzzyMatched, ki, processedKeys, pushed, summary>>

(* lines 136-137 *)
Summarize ==
    /\ pc = "summary"
    /\ summary' = calculateSummary(results, fileCount)
    /\ pc' = "done"
    /\ UNCHANGED <<headerVars, simVars, pdfVars, pageVars, colVars, allTables, keyColumnIndex, fileCount, perFile, headers, normalizedFiles, keyIdx,
                   keyMaps, allKeys, fuzzyMatched, ki, processedKeys, results, pushed>>

Next ==
    \/ MergeAndUnify
    \/ BuildKeyMaps
    \/ CollectAllKeys
    \/ FuzzyMatch
    \/ SkipProcessedKey
    \/ SkipResolvedKey
    \/ BuildRecord
    \/ SortResults
    \/ Summarize

Spec == Init /\ [][Next]_vars

-----------------------------------------------------------------------------
(* compareMultiFiles as an exported function: the caller passes any integer as
   keyColumnIndex, not only a column of the preview *)

MaxKeyColumn == 2

InitAnyKeyColumn ==
    /\ allTables \in Inputs(MinFiles, MaxTotalRows)
    /\ keyColumnIndex \in (0 - MaxKeyColumn)..MaxKeyColumn
    /\ pc = "start"
    /\ fileCount = 0
    /\ perFile = <<>>
    /\ headers = <<>>
    /\ normalizedFiles = <<>>
    /\ keyIdx = 0
    /\ keyMaps = <<>>
    /\ allKeys = <<>>
    /\ fuzzyMatched = <<>>
    /\ ki = 1
    /\ processedKeys = {}
    /\ results = <<>>
    /\ pushed = <<>>
    /\ summary = EmptySummary(0, 0)
    /\ IdleHeaders
    /\ IdleSim
    /\ IdlePdf
    /\ IdlePage
    /\ IdleColumns

SpecAnyKeyColumn == InitAnyKeyColumn /\ [][Next]_vars

-----------------------------------------------------------------------------
(* calculateSummary on its own: the rows are any sorted list of records of two
   files.  calculateSummary reads the status and missingFrom of a row only, the
   cells are left out. *)

MaxSummaryRows == 8

SummaryRecord(st, n, missingFrom) ==
    [status |-> st,
     keyValue |-> [j \in 1..n |-> "a"],
     presentIn |-> FilterFiles(MinFiles, 0, (0..(MinFiles - 1)) \ Range(missingFrom)),
     missingFrom |-> missingFrom,
     cells |-> <<>>]

SummaryInputs ==
    UNION {
        {[j \in 1..(Len(ms) + d + i) |->
             IF j <= Len(ms) THEN SummaryRecord("missing", j, ms[j])
             ELSE IF j <= Len(ms) + d THEN SummaryRecord("modified", j, <<>>)
             ELSE SummaryRecord("identical", j, <<>>)] :
         ms \in UNION {[1..m -> {<<f>> : f \in 0..(MinFiles - 1)}] : m \in 0..(MaxSummaryRows - d - i)}} :
        d \in 0..MaxSummaryRows, i \in 0..MaxSummaryRows }

InitSummary ==
    /\ results \in SummaryInputs
    /\ fileCount = MinFiles
    /\ pc = "summary"
    /\ allTables = <<>>
    /\ keyColumnIndex = 0
    /\ perFile = <<>>
    /\ headers = <<>>
    /\ normalizedFiles = <<>>
    /\ keyIdx = 0
    /\ keyMaps = <<>>
    /\ allKeys = <<>>
    /\ fuzzyMatched = <<>>
    /\ ki = 1
    /\ processedKeys = {}
    /\ pushed = <<>>
    /\ summary = EmptySummary(0, 0)
    /\ IdleHeaders
    /\ IdleSim
    /\ IdlePdf
    /\ IdlePage
    /\ IdleColumns

NextSummary == Summarize

SpecSummary == InitSummary /\ [][NextSummary]_vars

-----------------------------------------------------------------------------
(* unifyAllHeaders and normalizeRows on their own: unifyAllHeaders is applied to
   the header lists of the files, then to its own result as the header list of one
   file, and normalizeRows re-projects the rows of one of the files onto the
   unified headers, as lines 15-16 do *)

MaxHeaderSets == 2
MaxHeaders == 2
MaxNormRows == 1

(* headers equal up to case and blanks, and a different one *)
HeaderPool == { <<"I", "d">>, <<" ", "i", "d">>, <<"Q", "t", "y">> }

(* cell values of the rows to normalize *)
CellPool == { <<"1">>, <<"2">> }

SeqsUpTo(S, n) == UNION {[1..k -> S] : k \in 0..n}

HeaderSetInputs == UNION {[1..k -> SeqsUpTo(HeaderPool, MaxHeaders)] : k \in 1..MaxHeaderSets}

(* the parsers do not pad: a row may be shorter or longer than the header list *)
RowInputs(nHeaders) == SeqsUpTo(SeqsUpTo(CellPool, nHeaders + 1), MaxNormRows)

InitHeaders ==
    /\ headerLists \in HeaderSetInputs
    /\ unifiedList = <<>>
    /\ reunified = <<>>
    /\ srcFile = 0
    /\ rowsIn = <<>>
    /\ rowsOut = <<>>
    /\ headerPc = "unify"
    /\ IdleDiffer
    /\ IdleSim
    /\ IdlePdf
    /\ IdlePage
    /\ IdleColumns

(* line 15 *)
UnifyHeaders ==
    /\ headerPc = "unify"
    /\ unifiedList' = unifyAllHeaders(headerLists)
    /\ headerPc' = "reunify"
    /\ UNCHANGED <<differVars, simVars, pdfVars, pageVars, colVars, headerLists, reunified, srcFile, rowsIn, rowsOut>>

(* unifyAllHeaders on its own result, taken as the header list of a single file *)
ReunifyHeaders ==
    /\ headerPc = "reunify"
    /\ reunified' = unifyAllHeaders(<<unifiedList>>)
    /\ headerPc' = "normalize"
    /\ UNCHANGED <<differVars, simVars, pdfVars, pageVars, colVars, headerLists, unifiedList, srcFile, rowsIn, rowsOut>>

(* line 16, for one file f *)
NormalizeRows ==
    /\ headerPc = "normalize"
    /\ \E f \in 1..Len(headerLists) : \E rows \in RowInputs(Len(headerLists[f])) :
           /\ srcFile' = f
           /\ rowsIn' = rows
           /\ rowsOut' = normalizeRows(rows, headerLists[f], unifiedList)
    /\ headerPc' = "done"
    /\ UNCHANGED <<differVars, simVars, pdfVars, pageVars, colVars, headerLists, unifiedList, reunified>>

NextHeaders ==
    \/ UnifyHeaders
    \/ ReunifyHeaders
    \/ NormalizeRows

SpecHeaders == InitHeaders /\ [][NextHeaders]_vars

-----------------------------------------------------------------------------
(* stringSimilarity on its own, in both argument orders *)

MaxSimLen == 3

SimAlphabet == {"a", "b"}

SimStrings == SeqsUpTo(SimAlphabet, MaxSimLen)

InitSimilarity ==
    /\ simA \in SimStrings
    /\ simB \in SimStrings
    /\ simAB = [num |-> 0, den |-> 1]
    /\ simBA = [num |-> 0, den |-> 1]
    /\ simPc = "call"
    /\ IdleDiffer
    /\ IdleHeaders
    /\ IdlePdf
    /\ IdlePage
    /\ IdleColumns

ComputeSimilarity ==
    /\ simPc = "call"
    /\ simAB' = stringSimilarity(simA, simB)
    /\ simBA' = stringSimilarity(simB, simA)
    /\ simPc' = "done"
    /\ UNCHANGED <<differVars, headerVars, pdfVars, pageVars, colVars, simA, simB>>

NextSimilarity == ComputeSimilarity

SpecSimilarity == InitSimilarity /\ [][NextSimilarity]_vars

-----------------------------------------------------------------------------
(* parsePdfToTables (src/unnamed/part_004): from the text items of the pages to
   the table.  A text item is [x, y, width, text]; a line is [items, text]. *)

Abs(n) == IF n < 0 THEN 0 - n ELSE n

(* groupIntoRows sorts with (a, b) => a.y - b.y || a.x - b.x, buildLines with
   (a, b) => a.x - b.x; Array.prototype.sort is stable *)
CompareItems(a, b, byY) == IF byY /\ a.y # b.y THEN a.y - b.y ELSE a.x - b.x

RECURSIVE InsertItem(_, _, _)
InsertItem(sorted, item, byY) ==
    IF sorted = <<>> THEN <<item>>
    ELSE IF CompareItems(Head(sorted), item, byY) > 0 THEN <<item>> \o sorted
    ELSE <<Head(sorted)>> \o InsertItem(Tail(sorted), item, byY)

RECURSIVE SortItems(_, _, _)
SortItems(items, n, byY) ==
    IF n = 0 THEN <<>> ELSE InsertItem(SortItems(items, n - 1, byY), items[n], byY)

(* lines 660-669 *)
RECURSIVE GroupFrom(_, _, _, _, _)
GroupFrom(sorted, i, rows, currentRow, currentY) ==
    IF i > Len(sorted) THEN Append(rows, currentRow)
    ELSE IF Abs(sorted[i].y - currentY) <= 4
         THEN GroupFrom(sorted, i + 1, rows, Append(currentRow, sorted[i]), currentY)
         ELSE GroupFrom(sorted, i + 1, Append(rows, currentRow), <<sorted[i]>>, sorted[i].y)

(* called with at least one item *)
groupIntoRows(items) ==
    LET sorted == SortItems(items, Len(items), TRUE)
    IN  GroupFrom(sorted, 2, <<>>, <<sorted[1]>>, sorted[1].y)

(* lines 382-389: the texts of a row, a tab where the gap is above 10, else a blank *)
RECURSIVE LineText(_, _)
LineText(sorted, n) ==
    IF n = 0 THEN <<>>
    ELSE IF n = 1 THEN sorted[1].text
    ELSE LineText(sorted, n - 1)
         \o (IF sorted[n].x - (sorted[n - 1].x + sorted[n - 1].width) > 10
             THEN <<"\t">> ELSE <<" ">>)
         \o sorted[n].text

buildLines(items) ==
    IF items = <<>> THEN <<>>
    ELSE LET visualRows == groupIntoRows(items)
         IN  [r \in 1..Len(visualRows) |->
                 LET sorted == SortItems(visualRows[r], Len(visualRows[r]), FALSE)
                 IN  [items |-> sorted, text |-> trim(LineText(sorted, Len(sorted)))]]

(* String.prototype.includes *)
Includes(s, k) == \E i \in 0..(Len(s) - Len(k)) : SubSeq(s, i + 1, i + Len(k)) = k

(* s.split(/\s+/) when runs is TRUE, s.split(" ") when it is FALSE; cur is the
   piece being read *)
RECURSIVE Split(_, _, _, _)
Split(s, i, cur, runs) ==
    IF i > Len(s) THEN <<cur>>
    ELSE IF (IF runs THEN IsSpace(s[i]) ELSE s[i] = " ")
         THEN IF runs /\ i > 1 /\ IsSpace(s[i - 1])
              THEN Split(s, i + 1, cur, runs)
              ELSE <<cur>> \o Split(s, i + 1, <<>>, runs)
         ELSE Split(s, i + 1, Append(cur, s[i]), runs)

HEADER_KEYWORDS ==
    << <<"l","i","n","e">>, <<"q","t","y">>, <<"i","t","e","m">>,
       <<"d","e","s","c","r","i","p","t","i","o","n">>, <<"l","e","n","g","t","h">>,
       <<"w","e","i","g","h","t">>, <<"p","r","i","c","e">>, <<"a","m","o","u","n","t">>,
       <<"u","n","i","t">>, <<"t","o","t","a","l">>, <<"p","a","r","t">>, <<"m","a","r","k">>,
       <<"q","u","a","n","t","i","t","y">>, <<"c","o","s","t">>, <<"s","h","i","p">>,
       <<"w","a","r","e","h","o","u","s","e">>, <<"s","a","l","e","s">>, <<"o","r","d","e","r">>,
       <<"c","u","s","t","o","m","e","r">>, <<"p","o">>, <<"t","e","r","m","s">>, <<"i","d">>,
       <<"n","o">>, <<"c","o","l","o","r">>, <<"s","i","z","e">>, <<"d","e","t","a","i","l">>,
       <<"t","r","i","m">>, <<"q","u","a","n">> >>

(* words.filter((w) => keywords.some((k) => w.includes(k))).length *)
KeywordCount(words) ==
    Cardinality({j \in 1..Len(words) :
                    \E k \in 1..Len(HEADER_KEYWORDS) : Includes(words[j], HEADER_KEYWORDS[k])})

(* lines 405-414: i and idx count from 0, idx is -1 while no line has scored *)
RECURSIVE BestHeaderLine(_, _, _, _)
BestHeaderLine(lines, i, idx, bestScore) ==
    IF i >= Min(Len(lines), 15) THEN [idx |-> idx, score |-> bestScore]
    ELSE LET score == KeywordCount(Split(toLowerCase(lines[i + 1].text), 1, <<>>, TRUE))
         IN  IF score > bestScore THEN BestHeaderLine(lines, i + 1, i, score)
             ELSE BestHeaderLine(lines, i + 1, idx, bestScore)

(* lines 405-415 *)
FindHeaderLineIdx(lines) ==
    LET best == BestHeaderLine(lines, 0, 0 - 1, 0)
    IN  IF best.idx < 0 \/ best.score < 2 THEN 0 ELSE best.idx

(* lines 421-434 *)
RECURSIVE GroupHeaderItems(_, _, _)
GroupHeaderItems(items, i, groups) ==
    IF i > Len(items) THEN groups
    ELSE LET item == items[i]
             endX == item.x + item.width
             n == Len(groups)
         IN  IF n > 0 /\ item.x - groups[n].endX < 15
             THEN GroupHeaderItems(items, i + 1,
                      [groups EXCEPT ![n] = [x |-> @.x, endX |-> endX,
                                             text |-> @.text \o <<" ">> \o item.text]])
             ELSE GroupHeaderItems(items, i + 1,
                      Append(groups, [x |-> item.x, endX |-> endX, text |-> item.text]))

(* line 442 *)
OverlapsGroup(ai, hg) ==
    Abs(ai.x - hg.x) < 20 \/ (ai.x >= hg.x - 5 /\ ai.x <= hg.endX + 5)

(* lines 440-448: every item of the line above goes in front of the first header
   group it overlaps *)
RECURSIVE MergeAboveItems(_, _, _)
MergeAboveItems(aboveItems, j, groups) ==
    IF j > Len(aboveItems) THEN groups
    ELSE LET ai == aboveItems[j]
             hits == {g \in 1..Len(groups) : OverlapsGroup(ai, groups[g])}
         IN  IF hits = {} THEN MergeAboveItems(aboveItems, j + 1, groups)
             ELSE LET g == CHOOSE h \in hits : \A k \in hits : h <= k
                  IN  MergeAboveItems(aboveItems, j + 1,
                          [groups EXCEPT ![g].text = ai.text \o <<" ">> \o @])

(* lines 437-450: above counts from 0 and goes down to lowest; the loop stops at
   the first line that merged nothing *)
RECURSIVE MergeAbove(_, _, _, _)
MergeAbove(lines, above, lowest, groups) ==
    IF above < lowest THEN groups
    ELSE LET aboveItems == lines[above + 1].items
             merged == \E j \in 1..Len(aboveItems) : \E g \in 1..Len(groups) :
                           OverlapsGroup(aboveItems[j], groups[g])
         IN  IF merged
             THEN MergeAbove(lines, above - 1, lowest, MergeAboveItems(aboveItems, 1, groups))
             ELSE groups

(* lines 418-450 *)
HeaderGroups(lines, hIdx) ==
    MergeAbove(lines, hIdx - 1, IF hIdx - 3 > 0 THEN hIdx - 3 ELSE 0,
               GroupHeaderItems(lines[hIdx + 1].items, 1, <<>>))

(* text.toLowerCase().replace(/\s+/g, " ").trim(), lines 456 and 467 *)
Fingerprint(text) == trim(collapseWhitespace(toLowerCase(text)))

(* mutant: only a line that equals the header fingerprint is a repeat *)
IsRepeatedExactly(lineText, fingerprint) == lineText = fingerprint

(* lines 496-504; matchCount / headerWords.length >= 0.6 is compared exactly *)
isRepeatedHeader(lineText, fingerprint) ==
    IF lineText = fingerprint THEN TRUE
    ELSE LET headerWords == SelectSeq(Split(fingerprint, 1, <<>>, FALSE), LAMBDA w : Len(w) > 2)
             matchCount == Cardinality({j \in 1..Len(headerWords) :
                                           Includes(lineText, headerWords[j])})
         IN  Len(headerWords) # 0 /\ 10 * matchCount >= 6 * Len(headerWords)

(* lines 507-517; the pattern of line 509 is /\(\d{3}\)\s*\d{3}[- ]\d{4}/ *)
looksLikePageHeader(lineText) ==
    LET phone == \E i \in 1..Len(lineText) : \E k \in 0..Len(lineText) :
                     LET d == i + 5 + k
                     IN  /\ d + 7 <= Len(lineText)
                         /\ lineText[i] = "("
                         /\ \A j \in 1..3 : IsDigit(lineText[i + j])
                         /\ lineText[i + 4] = ")"
                         /\ \A j \in (i + 5)..(d - 1) : IsSpace(lineText[j])
                         /\ \A j \in 0..2 : IsDigit(lineText[d + j])
                         /\ lineText[d + 3] \in {"-", " "}
                         /\ \A j \in 4..7 : IsDigit(lineText[d + j])
    IN  \/ phone
        \/ KeywordCount(Split(lineText, 1, <<>>, TRUE)) >= 3
        \/ Len(lineText) < 10

(* mutant: on a tie the later column wins *)
RECURSIVE NearestColumnLastOnTie(_, _, _, _, _)
NearestColumnLastOnTie(x, columnBoundaries, c, bestCol, bestDist) ==
    IF c >= Len(columnBoundaries) THEN bestCol
    ELSE LET dist == Abs(x - columnBoundaries[c + 1])
         IN  IF dist <= bestDist
             THEN NearestColumnLastOnTie(x, columnBoundaries, c + 1, c, dist)
             ELSE NearestColumnLastOnTie(x, columnBoundaries, c + 1, bestCol, bestDist)

(* lines 682-690: c and bestCol count from 0 *)
RECURSIVE NearestColumn(_, _, _, _, _)
NearestColumn(x, columnBoundaries, c, bestCol, bestDist) ==
    IF c >= Len(columnBoundaries) THEN bestCol
    ELSE LET dist == Abs(x - columnBoundaries[c + 1])
         IN  IF dist < bestDist
             THEN NearestColumn(x, columnBoundaries, c + 1, c, dist)
             ELSE NearestColumn(x, columnBoundaries, c + 1, bestCol, bestDist)

(* lines 681-694 *)
RECURSIVE AssignFrom(_, _, _, _)
AssignFrom(rowItems, j, columnBoundaries, cells) ==
    IF j > Len(rowItems) THEN cells
    ELSE LET item == rowItems[j]
             bestCol == NearestColumn(item.x, columnBoundaries, 1, 0,
                                      Abs(item.x - columnBoundaries[1]))
         IN  AssignFrom(rowItems, j + 1, columnBoundaries,
                 [cells EXCEPT ![bestCol + 1] =
                     IF @ # <<>> THEN @ \o <<" ">> \o item.text ELSE item.text])

(* mutant: one cell per item of the row, whatever the columns are *)
AssignOneCellPerItem(rowItems, columnBoundaries) ==
    [j \in 1..Len(rowItems) |-> rowItems[j].text]

(* called with at least one column boundary: a header line has at least one item *)
assignToColumns(rowItems, columnBoundaries) ==
    AssignFrom(rowItems, 1, columnBoundaries, [c \in 1..Len(columnBoundaries) |-> <<>>])

(* lines 465-480, for the lines of page p (from 0) from line i (from 1) on *)
RECURSIVE CollectLines(_, _, _, _, _, _)
CollectLines(lines, i, p, fingerprint, columnBoundaries, rows) ==
    IF i > Len(lines) THEN rows
    ELSE LET lineFingerprint == Fingerprint(lines[i].text)
             row == assignToColumns(lines[i].items, columnBoundaries)
             skip == \/ isRepeatedHeader(lineFingerprint, fingerprint)
                     \/ (p > 0 /\ i - 1 < 5 /\ looksLikePageHeader(lineFingerprint))
         IN  CollectLines(lines, i + 1, p, fingerprint, columnBoundaries,
                 IF ~skip /\ \E c \in 1..Len(row) : trim(row[c]) # <<>>
                 THEN Append(rows, row) ELSE rows)

(* lines 461-481 *)
RECURSIVE CollectDataRows(_, _, _, _, _, _, _)
CollectDataRows(pages, p, firstLines, hIdx, fingerprint, columnBoundaries, rows) ==
    IF p >= Len(pages) THEN rows
    ELSE CollectDataRows(pages, p + 1, firstLines, hIdx, fingerprint, columnBoundaries,
             CollectLines(IF p = 0 THEN firstLines ELSE buildLines(pages[p + 1]),
                          IF p = 0 THEN hIdx + 2 ELSE 1,
                          p, fingerprint, columnBoundaries, rows))

(* /^\d+$/.test(val) *)
IsInteger(val) == val # <<>> /\ \A i \in 1..Len(val) : IsDigit(val[i])

(* line 524 *)
LineNumberNames ==
    { <<"l","i","n","e">>, <<"l","i","n","e","#">>, <<"l","i","n","e"," ","#">>,
      <<"n","o">>, <<"n","o",".">>, <<"#">> }

(* lines 520-544: the result counts from 0, -1 when no column is found *)
findLineNumberColumn(hdrs, rows) ==
    LET named == {c \in 0..(Len(hdrs) - 1) : trim(toLowerCase(hdrs[c + 1])) \in LineNumberNames}
        nonEmpty(c) == {r \in 1..Len(rows) : trim(KeyCell(rows[r], c)) # <<>>}
        numCount(c) == Cardinality({r \in nonEmpty(c) : IsInteger(trim(KeyCell(rows[r], c)))})
        numeric == {c \in 0..(Min(3, Len(hdrs)) - 1) :
                       nonEmpty(c) # {} /\ 2 * numCount(c) >= Cardinality(nonEmpty(c))}
    IN  IF named # {} THEN CHOOSE c \in named : \A d \in named : c <= d
        ELSE IF numeric # {} THEN CHOOSE c \in numeric : \A d \in numeric : c <= d
        ELSE 0 - 1

(* mutant: the cell of the continuation row replaces the cell of the record *)
RECURSIVE AppendCellsOverwrite(_, _, _, _, _)
AppendCellsOverwrite(prev, row, c, numCols, lineCol) ==
    IF c >= numCols THEN prev
    ELSE LET val == trim(KeyCell(row, c))
         IN  AppendCellsOverwrite(
                 IF val # <<>> /\ c # lineCol THEN [prev EXCEPT ![c + 1] = val] ELSE prev,
                 row, c + 1, numCols, lineCol)

(* lines 561-566: c counts from 0; every row has numCols cells here *)
RECURSIVE AppendCells(_, _, _, _, _)
AppendCells(prev, row, c, numCols, lineCol) ==
    IF c >= numCols THEN prev
    ELSE LET val == trim(KeyCell(row, c))
         IN  AppendCells(
                 IF val # <<>> /\ c # lineCol
                 THEN [prev EXCEPT ![c + 1] = IF @ # <<>> THEN @ \o <<" ", "|", " ">> \o val ELSE val]
                 ELSE prev,
                 row, c + 1, numCols, lineCol)

(* lines 552-568 *)
RECURSIVE MergeFrom(_, _, _, _, _)
MergeFrom(rows, i, lineCol, numCols, merged) ==
    IF i > Len(rows) THEN merged
    ELSE LET row == rows[i]
             isNewRow == IsInteger(trim(KeyCell(row, lineCol)))
         IN  IF isNewRow \/ merged = <<>>
             THEN MergeFrom(rows, i + 1, lineCol, numCols, Append(merged, row))
             ELSE MergeFrom(rows, i + 1, lineCol, numCols,
                      [merged EXCEPT ![Len(merged)] = AppendCells(@, row, 0, numCols, lineCol)])

mergeMultiLineRows(rows, lineCol, numCols) ==
    IF lineCol < 0 THEN rows ELSE MergeFrom(rows, 1, lineCol, numCols, <<>>)

(* lines 574-582: /Piece\s*Mark[:\s]+([^|]+)/i and the like; words are the parts
   of the label that \s* separates, lower-cased for the flag i *)
SUB_FIELD_PATTERNS ==
    << [label |-> <<"P","i","e","c","e"," ","M","a","r","k">>,
        words |-> << <<"p","i","e","c","e">>, <<"m","a","r","k">> >>],
       [label |-> <<"P","u","n","c","h">>, words |-> << <<"p","u","n","c","h">> >>],
       [label |-> <<"B","e","n","d"," ","A">>, words |-> << <<"b","e","n","d">>, <<"a">> >>],
       [label |-> <<"B","e","n","d"," ","B">>, words |-> << <<"b","e","n","d">>, <<"b">> >>],
       [label |-> <<"B","e","n","d"," ","C">>, words |-> << <<"b","e","n","d">>, <<"c">> >>],
       [label |-> <<"F","i","n","i","s","h">>, words |-> << <<"f","i","n","i","s","h">> >>],
       [label |-> <<"G","r","a","d","e">>, words |-> << <<"g","r","a","d","e">> >>] >>

(* the end of the longest run of characters of a class that starts at i: the
   first position behind it *)
RunEnd(s, i, class) ==
    LET In(c) == CASE class = "\\s" -> IsSpace(c)
                   [] class = "[:\\s]" -> c = ":" \/ IsSpace(c)
                   [] class = "[^|]" -> c # "|"
    IN  CHOOSE j \in i..(Len(s) + 1) :
            /\ \A k \in i..(j - 1) : In(s[k])
            /\ (j = Len(s) + 1 \/ ~In(s[j]))

(* the label of a pattern read at position i: the first position behind it, 0
   when the label is not there *)
LabelEnd(s, i, words) ==
    LET lower == toLowerCase(s)
        at(j, w) == j + Len(w) - 1 <= Len(s) /\ SubSeq(lower, j, j + Len(w) - 1) = w
    IN  IF ~at(i, words[1]) THEN 0
        ELSE IF Len(words) = 1 THEN i + Len(words[1])
        ELSE LET j == RunEnd(s, i + Len(words[1]), "\\s")
             IN  IF at(j, words[2]) THEN j + Len(words[2]) ELSE 0

(* what follows the label at position p: [:\s]+ takes the longest run of colons
   and whitespace and ([^|]+) everything up to the next pipe; when nothing but a
   pipe or the end follows the run, the run gives back its last character to
   the group *)
FieldTail(s, p, q) ==
    IF p = 0 \/ q = p THEN [ok |-> FALSE, capStart |-> 0, capEnd |-> 0]
    ELSE IF q <= Len(s) /\ s[q] # "|"
         THEN [ok |-> TRUE, capStart |-> q, capEnd |-> RunEnd(s, q, "[^|]") - 1]
    ELSE IF q - p >= 2 THEN [ok |-> TRUE, capStart |-> q - 1, capEnd |-> q - 1]
    ELSE [ok |-> FALSE, capStart |-> 0, capEnd |-> 0]

(* the pattern read at position i; p is the end of its label, 0 without one *)
MatchAt(s, i, p) ==
    FieldTail(s, p, IF p = 0 THEN 0 ELSE RunEnd(s, p, "[:\\s]"))

(* s.match(regex): the leftmost match, looked for from position i on *)
RECURSIVE MatchFrom(_, _, _)
MatchFrom(s, words, i) ==
    IF i > Len(s) THEN [ok |-> FALSE, start |-> 0, capStart |-> 0, capEnd |-> 0]
    ELSE LET t == MatchAt(s, i, LabelEnd(s, i, words))
         IN  IF t.ok
             THEN [ok |-> TRUE, start |-> i, capStart |-> t.capStart, capEnd |-> t.capEnd]
             ELSE MatchFrom(s, words, i + 1)

MatchField(s, words) == MatchFrom(s, words, 1)

(* lines 633-639: the match m of \|?\s* followed by the pattern is cut out of s;
   ws is where the whitespace before the label starts *)
CutMatch(s, m, ws) ==
    IF ~m.ok THEN s
    ELSE SubSeq(s, 1, (IF ws > 1 /\ s[ws - 1] = "|" THEN ws - 1 ELSE ws) - 1)
             \o SubSeq(s, m.capEnd + 1, Len(s))

CutField(s, m) ==
    CutMatch(s, m, CHOOSE j \in 1..m.start :
                       /\ \A i \in j..(m.start - 1) : IsSpace(s[i])
                       /\ (j = 1 \/ ~IsSpace(s[j - 1])))

(* lines 633-639, for one field after the other *)
RECURSIVE RemoveFields(_, _, _)
RemoveFields(s, fields, k) ==
    IF k > Len(fields) THEN s
    ELSE RemoveFields(CutField(s, MatchField(s, fields[k].words)), fields, k + 1)

(* replace(/\|\s*\|/g, "|") *)
RECURSIVE CollapsePipes(_, _)
CollapsePipes(s, i) ==
    IF i > Len(s) THEN <<>>
    ELSE LET q == RunEnd(s, i + 1, "\\s")
         IN  IF s[i] = "|" /\ q <= Len(s) /\ s[q] = "|"
             THEN <<"|">> \o CollapsePipes(s, q + 1)
             ELSE <<s[i]>> \o CollapsePipes(s, i + 1)

(* replace(/^\s*\|\s*|\s*\|\s*$/g, "") *)
StripEdgePipes(s) ==
    LET a == RunEnd(s, 1, "\\s")
        rest == IF a <= Len(s) /\ s[a] = "|"
                THEN SubSeq(s, RunEnd(s, a + 1, "\\s"), Len(s)) ELSE s
        te == trimEnd(rest)
    IN  IF te # <<>> /\ te[Len(te)] = "|" THEN trimEnd(SubSeq(te, 1, Len(te) - 1)) ELSE rest

RECURSIVE SumLengths(_, _, _)
SumLengths(rows, r, c) ==
    IF r = 0 THEN 0 ELSE SumLengths(rows, r - 1, c) + Len(KeyCell(rows[r], c))

(* lines 589-600: the first column named "description", else the column with the
   longest cells, -1 when every cell is empty; columns count from 0.  The
   averages of lines 597-598 have one divisor, so the sums are compared *)
DescColIdx(hdrs, rows) ==
    LET cols == 0..(Len(hdrs) - 1)
        named == {c \in cols : Includes(toLowerCase(hdrs[c + 1]),
                                        <<"d","e","s","c","r","i","p","t","i","o","n">>)}
        longest == {c \in cols : /\ SumLengths(rows, Len(rows), c) > 0
                                 /\ \A d \in cols : SumLengths(rows, Len(rows), d)
                                                       <= SumLengths(rows, Len(rows), c)}
    IN  IF named # {} THEN CHOOSE c \in named : \A d \in named : c <= d
        ELSE IF longest # {} THEN CHOOSE c \in longest : \A d \in longest : c <= d
        ELSE 0 - 1

(* lines 604-613: the fields that some row's description holds *)
ActiveFields(rows, descColIdx) ==
    SelectSeq(SUB_FIELD_PATTERNS,
              LAMBDA f : \E r \in 1..Len(rows) :
                             MatchField(KeyCell(rows[r], descColIdx), f.words).ok)

(* line 627-629: the value of one field in a description *)
ExtractedValue(desc, m) ==
    IF m.ok THEN trim(SubSeq(desc, m.capStart, m.capEnd)) ELSE <<>>

(* lines 622-645: one row with its description cleaned and the fields appended *)
ExtractRow(row, desc, descColIdx, activeFields) ==
    [(row \o [k \in 1..Len(activeFields) |->
                 ExtractedValue(desc, MatchField(desc, activeFields[k].words))])
        EXCEPT ![descColIdx + 1] =
            trim(StripEdgePipes(CollapsePipes(RemoveFields(desc, activeFields, 1), 1)))]

(* lines 615-647 *)
ExtractFields(hdrs, rows, descColIdx, activeFields) ==
    IF descColIdx < 0 \/ activeFields = <<>> THEN [headers |-> hdrs, rows |-> rows]
    ELSE [headers |-> hdrs \o [k \in 1..Len(activeFields) |-> activeFields[k].label],
          rows |-> [r \in 1..Len(rows) |->
                       ExtractRow(rows[r], KeyCell(rows[r], descColIdx),
                                  descColIdx, activeFields)]]

(* lines 585-648 *)
extractSubFields(hdrs, rows) ==
    ExtractFields(hdrs, rows, DescColIdx(hdrs, rows),
                  ActiveFields(rows, DescColIdx(hdrs, rows)))

-----------------------------------------------------------------------------
(* The pages handed to parsePdfToTables.  A page is written as lines of text
   items, the k-th line at y = 20 * k; the items reach the parser in this order.
   Lines 359-368 keep only items whose text is not blank, and trim it. *)

MaxPageLines == 3
MaxLaterLines == 2

LinePool ==
    { \* a header with a line-number name and a description column
      << [x |-> 0, dy |-> 0, width |-> 20, text |-> <<"L","i","n","e">>],
         [x |-> 50, dy |-> 0, width |-> 55,
          text |-> <<"D","e","s","c","r","i","p","t","i","o","n">>] >>,
      \* a header without a line-number name; its one word of more than two
      \* characters is also in the header above
      << [x |-> 0, dy |-> 0, width |-> 10, text |-> <<"I","d">>],
         [x |-> 50, dy |-> 0, width |-> 55,
          text |-> <<"D","e","s","c","r","i","p","t","i","o","n">>] >>,
      \* numbered rows, the second with a sub-field
      << [x |-> 0, dy |-> 0, width |-> 5, text |-> <<"1">>],
         [x |-> 50, dy |-> 0, width |-> 5, text |-> <<"x">>] >>,
      << [x |-> 2, dy |-> 0, width |-> 5, text |-> <<"2">>],
         [x |-> 52, dy |-> 0, width |-> 45,
          text |-> <<"F","i","n","i","s","h",":"," ","g">>] >>,
      \* rows without a number: one cell; and fragments that step down by 3 units,
      \* two of them at one position half way between the columns
      << [x |-> 50, dy |-> 0, width |-> 40, text |-> <<"g","r","a","d","e",":"," ","b">>] >>,
      << [x |-> 3, dy |-> 0, width |-> 5, text |-> <<"y">>],
         [x |-> 25, dy |-> 3, width |-> 5, text |-> <<"w">>],
         [x |-> 25, dy |-> 3, width |-> 5, text |-> <<"v">>],
         [x |-> 48, dy |-> 6, width |-> 5, text |-> <<"z">>] >> }

(* the text items of a page made of the given lines *)
PageItems(lines) ==
    Flatten([k \in 1..Len(lines) |->
                [j \in 1..Len(lines[k]) |->
                    [x |-> lines[k][j].x, y |-> 20 * k + lines[k][j].dy,
                     width |-> lines[k][j].width, text |-> lines[k][j].text]]])

PagesUpTo(n) == {PageItems(lines) : lines \in SeqsUpTo(LinePool, n)}

(* no page, one page, or two pages; any page may be empty *)
PdfInputs ==
    {<<>>} \cup {<<p>> : p \in PagesUpTo(MaxPageLines)}
           \cup {<<p, q>> : p \in PagesUpTo(MaxPageLines), q \in PagesUpTo(MaxLaterLines)}

InitPdf ==
    /\ pageItemSets \in PdfInputs
    /\ pdfPc = "start"
    /\ page1Lines = <<>>
    /\ headerLineIdx = 0
    /\ pdfHeaders = <<>>
    /\ colBoundaries = <<>>
    /\ headerFingerprint = <<>>
    /\ dataRows = <<>>
    /\ lineColIdx = 0
    /\ mergedRows = <<>>
    /\ pdfTables = <<>>
    /\ IdleDiffer
    /\ IdleHeaders
    /\ IdleSim
    /\ IdlePage
    /\ IdleColumns

(* lines 372-373 *)
ReturnEmptyDocument ==
    /\ pdfPc = "start"
    /\ \A p \in 1..Len(pageItemSets) : Len(pageItemSets[p]) = 0
    /\ pdfTables' = << [section |-> "Document",
                        headers |-> << <<"C","o","n","t","e","n","t">> >>,
                        rows |-> <<>>] >>
    /\ pdfPc' = "returned"
    /\ UNCHANGED <<differVars, headerVars, simVars, pageVars, colVars, pageItemSets, page1Lines, headerLineIdx,
                   pdfHeaders, colBoundaries, headerFingerprint, dataRows, lineColIdx, mergedRows>>

(* lines 403-415 *)
FindHeaderRow ==
    /\ pdfPc = "start"
    /\ \E p \in 1..Len(pageItemSets) : Len(pageItemSets[p]) # 0
    /\ page1Lines' = buildLines(pageItemSets[1])
    /\ headerLineIdx' = FindHeaderLineIdx(buildLines(pageItemSets[1]))
    /\ pdfPc' = "columns"
    /\ UNCHANGED <<differVars, headerVars, simVars, pageVars, colVars, pageItemSets, pdfHeaders, colBoundaries,
                   headerFingerprint, dataRows, lineColIdx, mergedRows, pdfTables>>

(* line 418: page1Lines[headerLineIdx] is undefined when the first page has no
   line, and reading .items of it throws a TypeError out of parsePdfToTables *)
RaiseNoHeaderLine ==
    /\ pdfPc = "columns"
    /\ headerLineIdx >= Len(page1Lines)
    /\ pdfPc' = "raised"
    /\ UNCHANGED <<differVars, headerVars, simVars, pageVars, colVars, pageItemSets, page1Lines, headerLineIdx,
                   pdfHeaders, colBoundaries, headerFingerprint, dataRows, lineColIdx,
                   mergedRows, pdfTables>>

(* lines 418-456 *)
BuildColumns ==
    /\ pdfPc = "columns"
    /\ headerLineIdx < Len(page1Lines)
    /\ LET headerGroups == HeaderGroups(page1Lines, headerLineIdx)
       IN  /\ pdfHeaders' = [g \in 1..Len(headerGroups) |-> trim(headerGroups[g].text)]
           /\ colBoundaries' = [g \in 1..Len(headerGroups) |-> headerGroups[g].x]
    /\ headerFingerprint' = Fingerprint(page1Lines[headerLineIdx + 1].text)
    /\ pdfPc' = "rows"
    /\ UNCHANGED <<differVars, headerVars, simVars, pageVars, colVars, pageItemSets, page1Lines, headerLineIdx,
                   dataRows, lineColIdx, mergedRows, pdfTables>>

(* lines 459-481 *)
CollectRows ==
    /\ pdfPc = "rows"
    /\ dataRows' = CollectDataRows(pageItemSets, 0, page1Lines, headerLineIdx,
                                   headerFingerprint, colBoundaries, <<>>)
    /\ pdfPc' = "collected"
    /\ UNCHANGED <<differVars, headerVars, simVars, pageVars, colVars, pageItemSets, page1Lines, headerLineIdx,
                   pdfHeaders, colBoundaries, headerFingerprint, lineColIdx, mergedRows,
                   pdfTables>>

(* line 483 *)
ReturnNoDataRows ==
    /\ pdfPc = "collected"
    /\ Len(dataRows) = 0
    /\ pdfTables' = << [section |-> "All Pages", headers |-> pdfHeaders, rows |-> <<>>] >>
    /\ pdfPc' = "returned"
    /\ UNCHANGED <<differVars, headerVars, simVars, pageVars, colVars, pageItemSets, page1Lines, headerLineIdx,
                   pdfHeaders, colBoundaries, headerFingerprint, dataRows, lineColIdx, mergedRows>>

(* lines 486-487 *)
MergeRows ==
    /\ pdfPc = "collected"
    /\ Len(dataRows) # 0
    /\ lineColIdx' = findLineNumberColumn(pdfHeaders, dataRows)
    /\ mergedRows' = mergeMultiLineRows(dataRows, findLineNumberColumn(pdfHeaders, dataRows),
                                        Len(pdfHeaders))
    /\ pdfPc' = "merged"
    /\ UNCHANGED <<differVars, headerVars, simVars, pageVars, colVars, pageItemSets, page1Lines, headerLineIdx,
                   pdfHeaders, colBoundaries, headerFingerprint, dataRows, pdfTables>>

(* lines 490-492 *)
ExtractAndReturn ==
    /\ pdfPc = "merged"
    /\ LET final == extractSubFields(pdfHeaders, mergedRows)
       IN  pdfTables' = << [section |-> "All Pages", headers |-> final.headers,
                            rows |-> final.rows] >>
    /\ pdfPc' = "returned"
    /\ UNCHANGED <<differVars, headerVars, simVars, pageVars, colVars, pageItemSets, page1Lines, headerLineIdx,
                   pdfHeaders, colBoundaries, headerFingerprint, dataRows, lineColIdx, mergedRows>>

NextPdf ==
    \/ ReturnEmptyDocument
    \/ FindHeaderRow
    \/ RaiseNoHeaderLine
    \/ BuildColumns
    \/ CollectRows
    \/ ReturnNoDataRows
    \/ MergeRows
    \/ ExtractAndReturn

SpecPdf == InitPdf /\ [][NextPdf]_vars

-----------------------------------------------------------------------------
(* The compare page (src/components/compare-page.tsx, lines 24-157).  A handler
   runs on the state of the latest render; handleParseFiles gives up control at
   its await (line 76) and goes on when the parsers have answered. *)

(* compareMultiFiles (structured-differ.ts lines 62-130) in one piece: the loop
   over allKeys from the i-th key on *)
RECURSIVE CompareFrom(_, _, _, _, _, _, _, _)
CompareFrom(keys, i, processed, fm, maps, files, hdrs, acc) ==
    IF i > Len(keys) THEN acc
    ELSE IF \/ keys[i] \in processed
            \/ (FuzzyGet(fm, keys[i]) \in processed /\ FuzzyGet(fm, keys[i]) # keys[i])
         THEN CompareFrom(keys, i + 1, processed, fm, maps, files, hdrs, acc)
    ELSE CompareFrom(keys, i + 1,
                     processed \cup Range(RelatedKeys(fm, FuzzyGet(fm, keys[i]))),
                     fm, maps, files, hdrs,
                     Append(acc, BuildRecordFor(FuzzyGet(fm, keys[i]), fm, maps, files, hdrs)))

(* structured-differ.ts lines 7-138 *)
compareMultiFiles(tables, keyColumn) ==
    LET merged == [f \in 1..Len(tables) |-> mergeTables(tables[f])]
        unified == unifyAllHeaders([f \in 1..Len(merged) |-> merged[f].headers])
        files == [f \in 1..Len(merged) |->
                     normalizeRows(merged[f].rows, merged[f].headers, unified)]
        maps == [f \in 1..Len(files) |->
                    BuildKeyMap(files[f], Min(keyColumn, Len(unified) - 1), 1, <<>>)]
        keys == CollectKeys(Flatten(maps), <<>>)
        rows == SortByStatus(CompareFrom(keys, 1, {}, FuzzyMatchAll(keys, maps, 1, <<>>),
                                         maps, files, unified, <<>>))
    IN  [headers |-> unified, rows |-> rows, summary |-> calculateSummary(rows, Len(tables))]

(* the slots of the page: the code allows 2 to 6 (lines 45 and 51), the model
   2 to MaxSlots *)
MinSlots == 2
MaxSlots == 3

(* the files the user can pick, written as their names, and what
   parseFileToTables answers for each: a plain table; a file of two tables, the
   second with more columns; a table with a header name written twice *)
FilePool == 1..3

parseFileToTables(file) ==
    CASE file = 1 -> << [headers |-> << <<"I", "d">>, <<"Q", "t", "y">> >>,
                         rows |-> << << <<"a">>, <<"1">> >> >>] >>
      [] file = 2 -> << [headers |-> << <<"Q", "t", "y">> >>,
                         rows |-> << << <<"2">> >> >>],
                        [headers |-> << <<"I", "d">>, <<"Q", "t", "y">> >>,
                         rows |-> << << <<"a">>, <<"2">> >> >>] >>
      [] file = 3 -> << [headers |-> << <<"I", "d">>, <<" ", "i", "d">>, <<"Q", "t", "y">> >>,
                         rows |-> << << <<"b">>, <<"c">>, <<"1">> >> >>] >>

(* lines 41, 69 and 117: fileSlots.filter((s) => s.file !== null) *)
FilledSlots(slots) == SelectSeq(slots, LAMBDA f : f # 0)

(* line 89 *)
keyNames ==
    { <<"i","t","e","m">>, <<"p","a","r","t">>, <<"p","a","r","t"," ","n","u","m","b","e","r">>,
      <<"p","a","r","t"," ","n","o">>, <<"s","k","u">>, <<"c","o","d","e">>, <<"i","d">>,
      <<"n","a","m","e">>, <<"p","r","o","d","u","c","t">>,
      <<"m","a","t","e","r","i","a","l">> }

(* lines 90-97: the first header that holds a key name, else column 0 *)
BestKey(hdrs) ==
    LET hits == {i \in 0..(Len(hdrs) - 1) :
                    \E k \in keyNames : Includes(normalizeHeader(hdrs[i + 1]), k)}
    IN  IF hits = {} THEN 0 ELSE CHOOSE i \in hits : \A j \in hits : i <= j

InitPage ==
    /\ fileSlots = <<0, 0>>
    /\ loading = FALSE
    /\ step = "upload"
    /\ parseJob = <<>>
    /\ previewHeaders = <<>>
    /\ result = <<>>
    /\ IdleDiffer
    /\ IdleHeaders
    /\ IdleSim
    /\ IdlePdf
    /\ IdleColumns

(* lines 44-48; the upload step shows its controls also while loading *)
addFileSlot ==
    /\ step = "upload"
    /\ Len(fileSlots) < MaxSlots
    /\ fileSlots' = Append(fileSlots, 0)
    /\ UNCHANGED <<differVars, headerVars, simVars, pdfVars, colVars, loading, step, parseJob,
                   previewHeaders, result>>

(* lines 50-53 *)
removeFileSlot ==
    /\ step = "upload"
    /\ Len(fileSlots) > MinSlots
    /\ \E idx \in 1..Len(fileSlots) :
          fileSlots' = [i \in 1..(Len(fileSlots) - 1) |->
                           IF i < idx THEN fileSlots[i] ELSE fileSlots[i + 1]]
    /\ UNCHANGED <<differVars, headerVars, simVars, pdfVars, colVars, loading, step, parseJob,
                   previewHeaders, result>>

(* lines 55-59: file is a File or null *)
updateFile ==
    /\ step = "upload"
    /\ \E idx \in 1..Len(fileSlots), file \in FilePool \cup {0} :
          /\ fileSlots[idx] # file
          /\ fileSlots' = [fileSlots EXCEPT ![idx] = file]
    /\ UNCHANGED <<differVars, headerVars, simVars, pdfVars, colVars, loading, step, parseJob,
                   previewHeaders, result>>

(* lines 68-77, up to the await; the button is disabled unless canParse (line 42) *)
handleParseFiles ==
    /\ step = "upload"
    /\ ~loading
    /\ Len(FilledSlots(fileSlots)) >= 2
    /\ parseJob' = FilledSlots(fileSlots)
    /\ loading' = TRUE
    /\ UNCHANGED <<differVars, headerVars, simVars, pdfVars, colVars, fileSlots, step,
                   previewHeaders, result>>

(* lines 80-99 and 105: the parsers have answered *)
ParseResolved ==
    /\ parseJob # <<>>
    /\ LET parsed == [i \in 1..Len(parseJob) |-> parseFileToTables(parseJob[i])]
       IN  /\ allTables' = parsed
           /\ previewHeaders' = PreviewHeaders(parsed)
           /\ keyColumnIndex' = BestKey(PreviewHeaders(parsed))
    /\ step' = "pick-key"
    /\ loading' = FALSE
    /\ parseJob' = <<>>
    /\ UNCHANGED <<headerVars, simVars, pdfVars, colVars, fileSlots, result, pc, fileCount,
                   perFile, headers, normalizedFiles, keyIdx, keyMaps, allKeys, fuzzyMatched,
                   ki, processedKeys, results, pushed, summary>>

(* lines 100-105: a parser has thrown *)
ParseRejected ==
    /\ parseJob # <<>>
    /\ loading' = FALSE
    /\ parseJob' = <<>>
    /\ UNCHANGED <<differVars, headerVars, simVars, pdfVars, colVars, fileSlots, step,
                   previewHeaders, result>>

(* line 262 *)
setKeyColumnIndex ==
    /\ step = "pick-key"
    /\ \E idx \in 0..(Len(previewHeaders) - 1) :
          /\ idx # keyColumnIndex
          /\ keyColumnIndex' = idx
    /\ UNCHANGED <<headerVars, simVars, pdfVars, colVars, pageVars, allTables, pc, fileCount,
                   perFile, headers, normalizedFiles, keyIdx, keyMaps, allKeys, fuzzyMatched,
                   ki, processedKeys, results, pushed, summary>>

(* line 315 *)
Back ==
    /\ step = "pick-key"
    /\ step' = "upload"
    /\ UNCHANGED <<differVars, headerVars, simVars, pdfVars, colVars, fileSlots, loading,
                   parseJob, previewHeaders, result>>

(* lines 110-143.  With no filled slot left, files[0] at line 118 throws, the
   catch sets the error and nothing is saved: the state modelled here stays *)
handleCompare ==
    /\ step = "pick-key"
    /\ ~loading
    /\ Len(allTables) >= 2
    /\ FilledSlots(fileSlots) # <<>>
    /\ LET compared == compareMultiFiles(allTables, keyColumnIndex)
       IN  result' = [fileNames |-> FilledSlots(fileSlots),
                      headers |-> compared.headers,
                      keyColumn |-> IF keyColumnIndex < Len(previewHeaders)
                                    THEN previewHeaders[keyColumnIndex + 1]
                                    ELSE <<"C","o","l","u","m","n"," ","1">>,
                      rows |-> compared.rows]
    /\ step' = "result"
    /\ UNCHANGED <<differVars, headerVars, simVars, pdfVars, colVars, fileSlots, loading,
                   parseJob, previewHeaders>>

(* lines 145-157 *)
handleReset ==
    /\ step = "result"
    /\ fileSlots' = <<0, 0>>
    /\ allTables' = <<>>
    /\ previewHeaders' = <<>>
    /\ keyColumnIndex' = 0
    /\ result' = <<>>
    /\ step' = "upload"
    /\ UNCHANGED <<headerVars, simVars, pdfVars, colVars, loading, parseJob, pc, fileCount,
                   perFile, headers, normalizedFiles, keyIdx, keyMaps, allKeys, fuzzyMatched,
                   ki, processedKeys, results, pushed, summary>>

NextPage ==
    \/ addFileSlot
    \/ removeFileSlot
    \/ updateFile
    \/ handleParseFiles
    \/ ParseResolved
    \/ ParseRejected
    \/ setKeyColumnIndex
    \/ Back
    \/ handleCompare
    \/ handleReset

SpecPage == InitPage /\ [][NextPage]_vars

-----------------------------------------------------------------------------
(* discoverColumns (src/unnamed/part_004 lines 89-124, the same text in
   part_003 lines 228-258), called with at least one item *)

(* lines 96-106: a position goes into the current cluster when it is at most 8
   above the position before it *)
RECURSIVE ClusterFrom(_, _, _, _)
ClusterFrom(sorted, i, clusters, currentCluster) ==
    IF i > Len(sorted) THEN Append(clusters, currentCluster)
    ELSE IF sorted[i] - sorted[i - 1] <= 8
         THEN ClusterFrom(sorted, i + 1, clusters, Append(currentCluster, sorted[i]))
         ELSE ClusterFrom(sorted, i + 1, Append(clusters, currentCluster), <<sorted[i]>>)

(* lines 91-106; the positions are whole numbers already *)
Clusters(items) ==
    LET sorted == SortItems(items, Len(items), FALSE)
    IN  ClusterFrom([k \in 1..Len(sorted) |-> sorted[k].x], 2, <<>>, <<sorted[1].x>>)

RECURSIVE SumSeq(_)
SumSeq(c) == IF c = <<>> THEN 0 ELSE Head(c) + SumSeq(Tail(c))

(* Math.round(c.reduce((a, b) => a + b, 0) / c.length), positions not negative *)
Centroid(c) == MathRound(SumSeq(c), Len(c))

(* lines 109-123 *)
ColumnsOf(clusters) ==
    LET significantClusters == SelectSeq(clusters, LAMBDA c : Len(c) >= 3)
        fallback == SelectSeq(clusters, LAMBDA c : Len(c) >= 2)
    IN  IF Len(significantClusters) <= 1
        THEN IF Len(fallback) <= 1
             THEN <<clusters[1][1]>>
             ELSE [k \in 1..Len(fallback) |-> Centroid(fallback[k])]
        ELSE [k \in 1..Len(significantClusters) |-> Centroid(significantClusters[k])]

discoverColumns(items) == ColumnsOf(Clusters(items))

MaxColumnItems == 6

InitColumns ==
    /\ xPositions \in UNION {[1..n -> {0, 6, 30, 36, 60}] : n \in 1..MaxColumnItems}
    /\ columns = <<>>
    /\ colPc = "call"
    /\ IdleDiffer
    /\ IdleHeaders
    /\ IdleSim
    /\ IdlePdf
    /\ IdlePage

DiscoverColumns ==
    /\ colPc = "call"
    /\ columns' = discoverColumns([k \in 1..Len(xPositions) |-> [x |-> xPositions[k]]])
    /\ colPc' = "done"
    /\ UNCHANGED <<differVars, headerVars, simVars, pdfVars, pageVars, xPositions>>

SpecColumns == InitColumns /\ [][DiscoverColumns]_vars

-----------------------------------------------------------------------------
(* findLineNumberColumn on tables of up to four columns (lines 483-492 of
   parsePdfToTables, entered with the collected rows of a document whose header
   row has two or four columns). *)

MaxLineRows == 2

(* the header rows: four columns without a line-number name, four columns with
   line-number names in the second and the fourth, two columns without one *)
LineHeaderPool ==
    { << <<"I","t","e","m">>, <<"S","i","z","e">>, <<"U","n","i","t">>, <<"Q","t","y">> >>,
      << <<"I","t","e","m">>, <<"N","o",".">>, <<"U","n","i","t">>, <<" ","n","o">> >>,
      << <<"I","t","e","m">>, <<"Q","t","y">> >> }

LineCellPool == { <<>>, <<"7">>, <<"a">> }

(* line 476: a collected row has a cell that is not blank *)
CollectedRows(n) ==
    {row \in [1..n -> LineCellPool] : \E c \in 1..n : trim(row[c]) # <<>>}

InitLineColumn ==
    /\ pdfPc = "collected"
    /\ pdfHeaders \in LineHeaderPool
    /\ \E k \in 1..MaxLineRows : dataRows \in [1..k -> CollectedRows(Len(pdfHeaders))]
    /\ pageItemSets = <<>>
    /\ page1Lines = <<>>
    /\ headerLineIdx = 0
    /\ colBoundaries = <<>>
    /\ headerFingerprint = <<>>
    /\ lineColIdx = 0
    /\ mergedRows = <<>>
    /\ pdfTables = <<>>
    /\ IdleDiffer
    /\ IdleHeaders
    /\ IdleSim
    /\ IdlePage
    /\ IdleColumns

NextLineColumn ==
    \/ MergeRows
    \/ ExtractAndReturn

SpecLineColumn == InitLineColumn /\ [][NextLineColumn]_vars

-----------------------------------------------------------------------------
(* Properties *)

Done == pc = "done"
FileCount == Len(allTables)
FileIndices == 0..(FileCount - 1)
Records == Range(results)

NoRepeats(s) == \A i, j \in 1..Len(s) : i # j => s[i] # s[j]
SomeDiffer(values) ==
    \E i, j \in 1..Len(values) : values[i] # Absent /\ values[j] # Absent /\ values[i] # values[j]

(* C1: in every record built, presentIn and missingFrom are disjoint, together they
   are exactly the file indices 0..fileCount-1, and the status is "missing" exactly
   when missingFrom is not empty *)
C1_PresenceIsPartition ==
    \A r \in Records :
        /\ Range(r.presentIn) \cap Range(r.missingFrom) = {}
        /\ Range(r.presentIn) \cup Range(r.missingFrom) = FileIndices
        /\ NoRepeats(r.presentIn) /\ NoRepeats(r.missingFrom)
        /\ (r.status = "missing") <=> (r.missingFrom # <<>>)

C1_Witness ==
    /\ Done
    /\ FileCount = 3
    /\ \E r \in Records : Len(r.presentIn) = 2 /\ Len(r.missingFrom) = 1 /\ r.status = "missing"
    /\ \E r \in Records : Len(r.presentIn) = 1 /\ Len(r.missingFrom) = 2

(* C2: a record present in every file is "modified" exactly when one of its cells
   has changed = TRUE, and "identical" exactly when none has *)
C2_StatusAgreesWithCells ==
    \A r \in Records :
        r.missingFrom = <<>> =>
            /\ (r.status = "modified") <=> (\E c \in 1..Len(r.cells) : r.cells[c].changed)
            /\ (r.status = "identical") <=> (\A c \in 1..Len(r.cells) : ~r.cells[c].changed)

C2_Witness ==
    /\ Done
    /\ \E r \in Records : r.missingFrom = <<>> /\ r.status = "modified"
                           /\ \E c \in 1..Len(r.cells) : ~r.cells[c].changed
    /\ \E r \in Records : r.status = "missing"

(* C3: a cell has changed = TRUE exactly when two of its non-absent values differ
   or its record is missing from some file *)
C3_ChangedFlag ==
    \A r \in Records : \A c \in 1..Len(r.cells) :
        r.cells[c].changed <=> (SomeDiffer(r.cells[c].values) \/ r.missingFrom # <<>>)

C3_Witness ==
    /\ Done
    /\ \E r \in Records : r.missingFrom # <<>> /\ Len(r.presentIn) = 2
           /\ (\E c \in 1..Len(r.cells) : r.cells[c].changed /\ ~SomeDiffer(r.cells[c].values))
           /\ (\E d \in 1..Len(r.cells) : r.cells[d].changed /\ SomeDiffer(r.cells[d].values))

(* C4: every record has one cell per unified header, in header order; every cell has
   one value slot per file; the slot of a file the record is not present in is absent *)
C4_CellShape ==
    \A r \in Records :
        /\ Len(r.cells) = Len(headers)
        /\ \A c \in 1..Len(r.cells) :
              /\ r.cells[c].header = headers[c]
              /\ Len(r.cells[c].values) = FileCount
              /\ \A f \in FileIndices :
                    f \notin Range(r.presentIn) => r.cells[c].values[f + 1] = Absent

C4_Witness ==
    /\ Done
    /\ FileCount = 3
    /\ Len(headers) = 2
    /\ \E r \in Records : Len(r.missingFrom) = 2
    /\ \E r \in Records : Len(r.missingFrom) = 1

(* the keys a file holds, read from its rows directly *)
RowKey(f, i) == normalizeKey(KeyCell(normalizedFiles[f][i], keyIdx))
KeysOfFile(f) == {RowKey(f, i) : i \in 1..Len(normalizedFiles[f])} \ {<<>>}
AllFileKeys == UNION {KeysOfFile(f) : f \in 1..Len(normalizedFiles)}
FilesHolding(k) == {f \in 1..Len(normalizedFiles) : k \in KeysOfFile(f)}
AtLeastSixTenths(sim) == 10 * sim.num >= 6 * sim.den
TrimmedRow(f, i) == [c \in 1..Len(headers) |-> trim(CellOf(normalizedFiles[f][i], c))]
ValuesOfFile(r, f) == [c \in 1..Len(r.cells) |-> r.cells[c].values[f]]

(* b is the one best fuzzy candidate of a: similar enough, and more similar to a
   than any other key *)
BestCandidate(a, b) ==
    /\ a # b
    /\ AtLeastSixTenths(stringSimilarity(a, b))
    /\ \A k \in AllFileKeys \ {a, b} :
          SimGreater(stringSimilarity(a, b), stringSimilarity(a, k))

(* C5: when key a occurs in exactly one file, a different key b occurs only in
   another file, and b is a's best fuzzy candidate with similarity at least 0.6,
   some record of the result has both files in presentIn *)
C5_FuzzyPairMerged ==
    Done =>
        \A a, b \in AllFileKeys : \A f, g \in 1..FileCount :
            (f # g /\ FilesHolding(a) = {f} /\ FilesHolding(b) = {g} /\ BestCandidate(a, b))
                => \E r \in Records : {f - 1, g - 1} \subseteq Range(r.presentIn)

(* C6: a non-empty key that occurs in exactly one file and is not similar (at least
   0.6, in either argument order of stringSimilarity) to any other key has exactly one
   record, with status "missing", present in that file only and missing from every
   other file, carrying the values of its row *)
C6_LoneKeyIsMissing ==
    Done =>
        \A x \in AllFileKeys : \A f \in 1..FileCount :
            (/\ FilesHolding(x) = {f}
             /\ \A k \in AllFileKeys \ {x} :
                   /\ ~AtLeastSixTenths(stringSimilarity(x, k))
                   /\ ~AtLeastSixTenths(stringSimilarity(k, x)))
                => /\ Cardinality({i \in 1..Len(results) : results[i].keyValue = x}) = 1
                   /\ \A r \in Records :
                         r.keyValue = x =>
                             /\ r.status = "missing"
                             /\ r.presentIn = <<f - 1>>
                             /\ Range(r.missingFrom) = FileIndices \ {f - 1}
                             /\ \E i \in 1..Len(normalizedFiles[f]) :
                                   RowKey(f, i) = x /\ ValuesOfFile(r, f) = TrimmedRow(f, i)

C6_Witness ==
    /\ Done
    /\ FileCount = 3
    /\ \E x \in AllFileKeys : \E f \in 1..FileCount :
          /\ FilesHolding(x) = {f}
          /\ \A k \in AllFileKeys \ {x} :
                /\ ~AtLeastSixTenths(stringSimilarity(x, k))
                /\ ~AtLeastSixTenths(stringSimilarity(k, x))
          /\ \E r \in Records : r.keyValue = x /\ r.status = "missing"
          /\ fuzzyMatched # <<>>

(* C7: the record of a key shows, for a file holding that key, the values of the
   first row of the file with the key; whatever a record shows for a file comes from
   a row that is the first one with its normalized key; and no two records are built
   for one key *)
C7_FirstSeenWins ==
    /\ \A r \in Records : \A f \in FilesHolding(r.keyValue) :
          \E i \in 1..Len(normalizedFiles[f]) :
              /\ RowKey(f, i) = r.keyValue
              /\ \A j \in 1..(i - 1) : RowKey(f, j) # r.keyValue
              /\ ValuesOfFile(r, f) = TrimmedRow(f, i)
    /\ \A r \in Records : \A f \in 1..FileCount :
          (f - 1) \in Range(r.presentIn) =>
              \E i \in 1..Len(normalizedFiles[f]) :
                  /\ ValuesOfFile(r, f) = TrimmedRow(f, i)
                  /\ \A j \in 1..(i - 1) : RowKey(f, j) # RowKey(f, i)
    /\ \A i, j \in 1..Len(results) : i # j => results[i].keyValue # results[j].keyValue
    /\ Len(results) <= Cardinality(AllFileKeys)

C7_Witness ==
    /\ Done
    /\ \E f \in 1..FileCount : \E i, j \in 1..Len(normalizedFiles[f]) :
          /\ i < j
          /\ RowKey(f, i) = RowKey(f, j)
          /\ RowKey(f, i) # <<>>
          /\ TrimmedRow(f, i) # TrimmedRow(f, j)
          /\ \E r \in Records :
                /\ r.keyValue = RowKey(f, i)
                /\ Len(r.presentIn) = 2
                /\ ValuesOfFile(r, f) = TrimmedRow(f, i)

(* the order in which keys are first seen: file order, then row order *)
FirstFile(k) == CHOOSE f \in FilesHolding(k) : \A g \in FilesHolding(k) : f <= g
FirstRow(k) ==
    CHOOSE i \in 1..Len(normalizedFiles[FirstFile(k)]) :
        /\ RowKey(FirstFile(k), i) = k
        /\ \A j \in 1..(i - 1) : RowKey(FirstFile(k), j) # k
SeenBefore(k1, k2) ==
    \/ FirstFile(k1) < FirstFile(k2)
    \/ FirstFile(k1) = FirstFile(k2) /\ FirstRow(k1) < FirstRow(k2)

SortedByStatus ==
    \A i, j \in 1..Len(results) :
        i < j => StatusOrder(results[i].status) <= StatusOrder(results[j].status)

WithStatus(rs, st) == SelectSeq(rs, LAMBDA r : r.status = st)
PushedRecords == [i \in 1..Len(pushed) |-> pushed[i].record]

(* C8 as claimed: the rows are ordered missing, modified, identical, and within one
   status by the first-seen order (file, then row) of their keys *)
C8_SortedThenFirstSeenOrder ==
    Done =>
        /\ SortedByStatus
        /\ \A i, j \in 1..Len(results) :
              (i < j /\ results[i].status = results[j].status)
                  => SeenBefore(results[i].keyValue, results[j].keyValue)

(* C8 as amended: the rows are ordered missing, modified, identical, and within one
   status they keep the order in which they were built, which is the first-seen
   order of the keys at whose turn they were built; the keyValue of a record is that
   key or the key it is aliased to *)
C8_SortedThenBuildOrder ==
    Done =>
        /\ SortedByStatus
        /\ \A st \in {"missing", "modified", "identical"} :
              WithStatus(results, st) = WithStatus(PushedRecords, st)
        /\ \A i, j \in 1..Len(pushed) : i < j => SeenBefore(pushed[i].key, pushed[j].key)
        /\ \A i \in 1..Len(pushed) :
              pushed[i].record.keyValue = FuzzyGet(fuzzyMatched, pushed[i].key)

C8_Witness ==
    /\ Done
    /\ results # PushedRecords
    /\ \E i \in 1..Len(pushed) : pushed[i].record.keyValue # pushed[i].key

(* C9: the summary counts the records of each status, the three counts add up to
   totalItems, which is the number of rows, and missingPerFile has one entry per
   file, the number of records whose missingFrom holds that file *)
C9_SummaryCounts ==
    Done =>
        /\ \A st \in {"missing", "modified", "identical"} :
              summary[st] = Cardinality({i \in 1..Len(results) : results[i].status = st})
        /\ summary.identical + summary.modified + summary.missing = summary.totalItems
        /\ summary.totalItems = Len(results)
        /\ Len(summary.missingPerFile) = FileCount
        /\ \A f \in 1..FileCount :
              summary.missingPerFile[f] =
                  Cardinality({i \in 1..Len(results) : (f - 1) \in Range(results[i].missingFrom)})

C9_Witness ==
    /\ Done
    /\ FileCount = 3
    /\ summary.missing = 2
    /\ \E f, g \in 1..FileCount :
          summary.missingPerFile[f] = 2 /\ summary.missingPerFile[g] = 1

(* C10: matchScore is an integer from 0 to 100, it is 100 when there are no items,
   and otherwise it is 100 * identical / totalItems rounded to the nearest integer *)
C10_MatchScore ==
    Done =>
        /\ summary.matchScore \in 0..100
        /\ summary.totalItems = 0 => summary.matchScore = 100
        /\ summary.totalItems > 0 =>
              LET exact == 100 * summary.identical
                  scaled == summary.matchScore * summary.totalItems
              IN  /\ 2 * (scaled - exact) <= summary.totalItems
                  /\ 2 * (exact - scaled) <= summary.totalItems

C10_Witness ==
    /\ Done
    /\ summary.totalItems = 3
    /\ summary.identical = 2
    /\ summary.matchScore = 67

(* C11: whatever integer is passed as keyColumnIndex, once the unified headers
   are known and there is at least one, the index used to read the keys lies in
   0..headers.length-1 *)
C11_KeyIdxInRange ==
    (pc # "start" /\ Len(headers) > 0) => keyIdx \in 0..(Len(headers) - 1)

(* the header lists of the files one after the other, and the positions in it
   whose header, normalized, did not occur before *)
FlatHeaders == Flatten(headerLists)
FirstOccurrences ==
    {i \in 1..Len(FlatHeaders) :
        \A j \in 1..(i - 1) : normalizeHeader(FlatHeaders[j]) # normalizeHeader(FlatHeaders[i])}
NthFirstOccurrence(k) ==
    CHOOSE i \in FirstOccurrences : Cardinality({j \in FirstOccurrences : j <= i}) = k

(* C12: the unified headers hold every header of every file up to normalization,
   no two of them are equal after normalization, and they are the first
   occurrences of the distinct headers, in the order of first occurrence (file
   order, then column order) *)
C12_UnionOfFirstOccurrences ==
    headerPc # "unify" =>
        /\ \A i \in 1..Len(FlatHeaders) :
              \E k \in 1..Len(unifiedList) :
                  normalizeHeader(unifiedList[k]) = normalizeHeader(FlatHeaders[i])
        /\ \A k, l \in 1..Len(unifiedList) :
              k # l => normalizeHeader(unifiedList[k]) # normalizeHeader(unifiedList[l])
        /\ Len(unifiedList) = Cardinality(FirstOccurrences)
        /\ \A k \in 1..Len(unifiedList) : unifiedList[k] = FlatHeaders[NthFirstOccurrence(k)]

C12_Witness ==
    /\ headerPc # "unify"
    /\ Len(headerLists) = 2
    /\ Len(unifiedList) = 2
    /\ Len(FlatHeaders) = 4
    /\ unifiedList[1] = <<" ", "i", "d">>
    /\ unifiedList[2] \in Range(headerLists[2])
    /\ unifiedList[2] \notin Range(headerLists[1])

(* C13: unifyAllHeaders applied to its own result, as the header list of one
   file, returns that result *)
C13_UnifyIdempotent ==
    headerPc \in {"normalize", "done"} => reunified = unifiedList

C13_Witness ==
    /\ headerPc \in {"normalize", "done"}
    /\ Len(unifiedList) = 2
    /\ Len(FlatHeaders) > 2
    /\ reunified = unifiedList

(* the position of the unified header with the normalized name of original
   column i, 0 when there is none *)
TargetOf(i) == FindHeaderIndex(unifiedList, normalizeHeader(headerLists[srcFile][i]))

(* C14: normalizeRows returns one row per input row, each as long as the unified
   headers; the value of every original column of the row stands at the position
   of the unified header with the same normalized name, and a unified column with
   no original header of that name holds the empty string *)
C14_ValuesProjected ==
    headerPc = "done" =>
        /\ Len(rowsOut) = Len(rowsIn)
        /\ \A r \in 1..Len(rowsOut) :
              /\ Len(rowsOut[r]) = Len(unifiedList)
              /\ \A i \in 1..Min(Len(headerLists[srcFile]), Len(rowsIn[r])) :
                    TargetOf(i) # 0 => rowsOut[r][TargetOf(i)] = rowsIn[r][i]
              /\ \A j \in 1..Len(unifiedList) :
                    (\A i \in 1..Len(headerLists[srcFile]) : TargetOf(i) # j)
                        => rowsOut[r][j] = <<>>

(* C15: stringSimilarity(a, b) and stringSimilarity(b, a) are the same number *)
C15_Symmetric ==
    simPc = "done" => simAB.num * simBA.den = simBA.num * simAB.den

(* C16: a string of at least two characters has similarity 1 with itself, and two
   different strings one of which has fewer than two characters have similarity 0 *)
C16_SelfOneShortZero ==
    simPc = "done" =>
        /\ (simA = simB /\ Len(simA) >= 2) => simAB.num = simAB.den
        /\ (simA # simB /\ (Len(simA) < 2 \/ Len(simB) < 2)) => simAB.num = 0

C16_Witness ==
    /\ simPc = "done"
    /\ simA = <<"a", "a", "a">>
    /\ simB = simA
    /\ simAB.num = simAB.den

(* C17: the empty key is in no key map, not among the keys collected and in no
   fuzzy pair; no record is named by it, and no record shows for a file a row whose
   key cell is empty after normalization *)
C17_EmptyKeyRowsLeftOut ==
    /\ \A f \in 1..Len(keyMaps) : ~MapHas(keyMaps[f], <<>>)
    /\ <<>> \notin Range(allKeys)
    /\ \A j \in 1..Len(fuzzyMatched) : fuzzyMatched[j].key # <<>> /\ fuzzyMatched[j].value # <<>>
    /\ \A r \in Records :
          /\ r.keyValue # <<>>
          /\ r.keyValue \in AllFileKeys
          /\ \A f \in 1..FileCount :
                (f - 1) \in Range(r.presentIn) =>
                    /\ normalizeKey(r.cells[keyIdx + 1].values[f]) # <<>>
                    /\ \E i \in 1..Len(normalizedFiles[f]) :
                          RowKey(f, i) # <<>> /\ ValuesOfFile(r, f) = TrimmedRow(f, i)

C17_Witness ==
    /\ Done
    /\ \E f \in 1..FileCount : \E i, j \in 1..Len(normalizedFiles[f]) :
          /\ i < j
          /\ RowKey(f, i) = <<>>
          /\ RowKey(f, j) # <<>>
          /\ \E r \in Records : r.keyValue = RowKey(f, j) /\ r.missingFrom = <<>>

(* C18: every row of a table has as many cells as the table has headers: the data
   rows after the column assignment, the rows after the multi-line merge, and the
   rows of the table returned, with or without sub-field columns *)
C18_NoRaggedRows ==
    /\ \A r \in 1..Len(dataRows) : Len(dataRows[r]) = Len(pdfHeaders)
    /\ \A r \in 1..Len(mergedRows) : Len(mergedRows[r]) = Len(pdfHeaders)
    /\ \A t \in 1..Len(pdfTables) : \A r \in 1..Len(pdfTables[t].rows) :
          Len(pdfTables[t].rows[r]) = Len(pdfTables[t].headers)

C18_Witness ==
    /\ pdfPc = "returned"
    /\ Len(pdfTables[1].headers) > Len(pdfHeaders)
    /\ Len(mergedRows) < Len(dataRows)
    /\ Len(pdfTables[1].rows) >= 2
    /\ Len(pageItemSets) = 2

(* C19: parsePdfToTables never throws, whichever pages are empty, and with no text
   item at all it returns one table with the single header "Content" and no rows *)
C19_AlwaysReturnsTable ==
    /\ pdfPc # "raised"
    /\ (pdfPc = "returned" /\ \A p \in 1..Len(pageItemSets) : pageItemSets[p] = <<>>)
          => /\ Len(pdfTables) = 1
             /\ pdfTables[1].headers = << <<"C","o","n","t","e","n","t">> >>
             /\ pdfTables[1].rows = <<>>

(* the data rows that open a record in mergeMultiLineRows: the first row, and
   every row with an integer in the line-number column *)
RecordStarts ==
    {i \in 1..Len(dataRows) :
        i = 1 \/ IsInteger(trim(KeyCell(dataRows[i], lineColIdx)))}
NthRecordStart(k) ==
    CHOOSE i \in RecordStarts : Cardinality({j \in RecordStarts : j <= i}) = k
(* the last data row that belongs to the k-th record *)
RecordEnd(k) ==
    IF k = Cardinality(RecordStarts) THEN Len(dataRows) ELSE NthRecordStart(k + 1) - 1

(* the parts that are not empty, joined with " | " *)
RECURSIVE PipeJoin(_)
PipeJoin(parts) ==
    IF parts = <<>> THEN <<>>
    ELSE LET rest == PipeJoin(Tail(parts))
         IN  IF Head(parts) = <<>> THEN rest
             ELSE IF rest = <<>> THEN Head(parts)
             ELSE Head(parts) \o <<" ", "|", " ">> \o rest

(* C20: with a line-number column, the merged rows are the records, one per row
   that opens a record; a row that follows a record and has no integer in the
   line-number column is not a row of its own: its non-empty cells, trimmed, are
   joined with " | " to the cells of the same columns of the record, in row order,
   and the line-number cell of the record stays as it was *)
C20_ContinuationRowsMerged ==
    (pdfPc \in {"merged", "returned"} /\ lineColIdx >= 0) =>
        /\ Len(mergedRows) = Cardinality(RecordStarts)
        /\ \A k \in 1..Len(mergedRows) :
              LET first == NthRecordStart(k)
                  last == RecordEnd(k)
              IN  /\ mergedRows[k][lineColIdx + 1] = dataRows[first][lineColIdx + 1]
                  /\ \A c \in 1..Len(pdfHeaders) :
                        c # lineColIdx + 1 =>
                            mergedRows[k][c] =
                                PipeJoin(<<dataRows[first][c]>>
                                         \o [j \in 1..(last - first) |->
                                                 trim(dataRows[first + j][c])])

C20_Witness ==
    /\ pdfPc = "returned"
    /\ lineColIdx >= 0
    /\ Len(mergedRows) = 2
    /\ \E i \in 2..Len(dataRows) :
          /\ i \notin RecordStarts
          /\ trim(dataRows[i][lineColIdx + 1]) # <<>>
    /\ \E k \in 1..Len(mergedRows) : \E c \in 1..Len(pdfHeaders) :
          Includes(mergedRows[k][c], <<" ", "|", " ">>)

(* C21: in every record the compare page saves, the values of every cell are as
   many as the file names of the record, and the i-th of them come from the
   tables of the i-th named file *)
C21_ValuesMatchFileNames ==
    (step = "result" /\ result # <<>>) =>
        /\ \A r \in 1..Len(result.rows) : \A c \in 1..Len(result.rows[r].cells) :
              Len(result.rows[r].cells[c].values) = Len(result.fileNames)
        /\ Len(allTables) = Len(result.fileNames)
        /\ \A i \in 1..Len(result.fileNames) :
              i <= Len(allTables) => allTables[i] = parseFileToTables(result.fileNames[i])

(* the lines the data rows are collected from, page after page: on the first
   page the lines behind the header row; p and i count from 0 *)
LinesAfterHeader ==
    Flatten([p \in 1..Len(pageItemSets) |->
                LET lines == buildLines(pageItemSets[p])
                    start == IF p = 1 THEN headerLineIdx + 1 ELSE 0
                IN  [k \in 1..(IF Len(lines) > start THEN Len(lines) - start ELSE 0) |->
                        [p |-> p - 1, i |-> start + k - 1, line |-> lines[start + k]]]])

SignificantWords == SelectSeq(Split(headerFingerprint, 1, <<>>, FALSE), LAMBDA w : Len(w) > 2)

(* the line holds at least 60% of the significant words of the header, of which
   there is at least one *)
SharesHeaderWords(text) ==
    /\ SignificantWords # <<>>
    /\ 10 * Cardinality({j \in 1..Len(SignificantWords) : Includes(text, SignificantWords[j])})
           >= 6 * Len(SignificantWords)

LooksRepeated(e) ==
    \/ Fingerprint(e.line.text) = headerFingerprint
    \/ SharesHeaderWords(Fingerprint(e.line.text))

(* what drops a line apart from the repeated-header test: the page-header test
   on the first five lines of a later page, and a row of blank cells *)
DroppedOtherwise(e) ==
    \/ (e.p > 0 /\ e.i < 5 /\ looksLikePageHeader(Fingerprint(e.line.text)))
    \/ \A c \in 1..Len(colBoundaries) :
           trim(assignToColumns(e.line.items, colBoundaries)[c]) = <<>>

RowsCollected == pdfPc \in {"collected", "merged"} \/ (pdfPc = "returned" /\ colBoundaries # <<>>)

(* C22: the data rows are the rows of the lines behind the header row, on every
   page, without the lines whose fingerprint equals the header fingerprint or
   holds at least 60% of the header's significant words; a line that does
   neither is left out only by the page-header test or for being blank *)
C22_RepeatedHeadersDropped ==
    RowsCollected =>
        LET kept == SelectSeq(LinesAfterHeader,
                              LAMBDA e : ~LooksRepeated(e) /\ ~DroppedOtherwise(e))
        IN  dataRows = [k \in 1..Len(kept) |-> assignToColumns(kept[k].line.items, colBoundaries)]

C22_Witness ==
    /\ pdfPc = "returned"
    /\ dataRows # <<>>
    /\ \E k \in 1..Len(LinesAfterHeader) :
          LET e == LinesAfterHeader[k]
          IN  /\ e.p > 0
              /\ Fingerprint(e.line.text) # headerFingerprint
              /\ SharesHeaderWords(Fingerprint(e.line.text))
              /\ ~DroppedOtherwise(e)
    /\ \E k \in 1..Len(LinesAfterHeader) :
          LinesAfterHeader[k].p = 0 /\ Fingerprint(LinesAfterHeader[k].line.text) = headerFingerprint

Count(s, v) == Cardinality({k \in 1..Len(s) : s[k] = v})

(* the row of groupIntoRows(items) that holds the k-th fragment of the rows read
   one after the other *)
RowOf(rows, k) ==
    CHOOSE r \in 1..Len(rows) :
        /\ Len(Flatten(SubSeq(rows, 1, r - 1))) < k
        /\ k <= Len(Flatten(SubSeq(rows, 1, r)))

(* C23: for the fragments of every page, the rows of groupIntoRows read one after
   the other are the fragments in (vertical, horizontal) order, each fragment
   once; two consecutive ones are in one row exactly when their vertical
   positions differ by at most 4 *)
C23_ConsecutiveWithinTolerance ==
    \A p \in 1..Len(pageItemSets) :
        pageItemSets[p] # <<>> =>
            LET rows == groupIntoRows(pageItemSets[p])
                sorted == Flatten(rows)
            IN  /\ \A v \in Range(pageItemSets[p]) : Count(sorted, v) = Count(pageItemSets[p], v)
                /\ Len(sorted) = Len(pageItemSets[p])
                /\ \A k \in 1..(Len(sorted) - 1) :
                      /\ CompareItems(sorted[k], sorted[k + 1], TRUE) <= 0
                      /\ (RowOf(rows, k) = RowOf(rows, k + 1))
                             <=> (Abs(sorted[k + 1].y - sorted[k].y) <= 4)

(* parsePdfToTables from line 483 on, from line 418 on, and as a whole, for a
   document whose first page has a fragment *)
TablesFromRows(hdrs, rows) ==
    IF rows = <<>> THEN << [section |-> "All Pages", headers |-> hdrs, rows |-> <<>>] >>
    ELSE LET final == extractSubFields(hdrs,
                          mergeMultiLineRows(rows, findLineNumberColumn(hdrs, rows), Len(hdrs)))
         IN  << [section |-> "All Pages", headers |-> final.headers, rows |-> final.rows] >>

TablesFromHeader(pages, lines, hIdx, groups) ==
    TablesFromRows([g \in 1..Len(groups) |-> trim(groups[g].text)],
                   CollectDataRows(pages, 0, lines, hIdx, Fingerprint(lines[hIdx + 1].text),
                                   [g \in 1..Len(groups) |-> groups[g].x], <<>>))

TablesFromLines(pages, lines, hIdx) ==
    TablesFromHeader(pages, lines, hIdx, HeaderGroups(lines, hIdx))

TablesOf(pages) ==
    TablesFromLines(pages, buildLines(pages[1]), FindHeaderLineIdx(buildLines(pages[1])))

(* the pages with the k-th and the next fragment of page p emitted the other way round *)
EmittedSwapped(pages, p, k) ==
    [pages EXCEPT ![p] = [@ EXCEPT ![k] = pages[p][k + 1], ![k + 1] = pages[p][k]]]

(* C24: the tables returned are those of the same fragments emitted in any other
   order (every order is reached by swapping neighbours) *)
C24_EmissionOrderIrrelevant ==
    (pdfPc = "returned" /\ colBoundaries # <<>>) =>
        \A p \in 1..Len(pageItemSets) : \A k \in 1..(Len(pageItemSets[p]) - 1) :
            TablesOf(EmittedSwapped(pageItemSets, p, k)) = pdfTables

ClustersOfSize(n) ==
    SelectSeq(Clusters([k \in 1..Len(xPositions) |-> [x |-> xPositions[k]]]),
              LAMBDA c : Len(c) >= n)

Centroids(clusters) == [k \in 1..Len(clusters) |-> Centroid(clusters[k])]

(* C25: the columns are the centroids of the clusters of at least 3 positions
   when there is one; else those of the clusters of at least 2 positions when
   there is one; else the one column at the lowest position *)
C25_ClusterThresholds ==
    colPc = "done" =>
        columns = IF ClustersOfSize(3) # <<>> THEN Centroids(ClustersOfSize(3))
                  ELSE IF ClustersOfSize(2) # <<>> THEN Centroids(ClustersOfSize(2))
                  ELSE <<CHOOSE m \in Range(xPositions) : \A v \in Range(xPositions) : m <= v>>

-----------------------------------------------------------------------------
(* C26: findLineNumberColumn returns the first column whose header is a
   line-number name; when no header is one, the lowest column, among all the
   columns of the table, in which at least half of the non-empty values are
   pure integers; and -1 only when no column qualifies. *)
NamedColumns == {c \in 0..(Len(pdfHeaders) - 1) :
                    trim(toLowerCase(pdfHeaders[c + 1])) \in LineNumberNames}

NonEmptyIn(c) == {r \in 1..Len(dataRows) : trim(KeyCell(dataRows[r], c)) # <<>>}

IntegersIn(c) == {r \in NonEmptyIn(c) : IsInteger(trim(KeyCell(dataRows[r], c)))}

MostlyIntegerColumns ==
    {c \in 0..(Len(pdfHeaders) - 1) :
        NonEmptyIn(c) # {} /\ 2 * Cardinality(IntegersIn(c)) >= Cardinality(NonEmptyIn(c))}

Lowest(S) == CHOOSE c \in S : \A d \in S : c <= d

C26_LineColumnAmongAllColumns ==
    pdfPc \in {"merged", "returned"} =>
        lineColIdx = IF NamedColumns # {} THEN Lowest(NamedColumns)
                     ELSE IF MostlyIntegerColumns # {} THEN Lowest(MostlyIntegerColumns)
                     ELSE 0 - 1

-----------------------------------------------------------------------------
(* the column of a fragment at x, from 1: no boundary is nearer, and no boundary
   before it is as near *)
ColumnOfFragment(x) ==
    CHOOSE c \in 1..Len(colBoundaries) :
        /\ \A d \in 1..Len(colBoundaries) : Abs(x - colBoundaries[c]) <= Abs(x - colBoundaries[d])
        /\ \A d \in 1..(c - 1) : Abs(x - colBoundaries[c]) < Abs(x - colBoundaries[d])

RECURSIVE JoinWithSpace(_)
JoinWithSpace(texts) ==
    IF texts = <<>> THEN <<>>
    ELSE IF Len(texts) = 1 THEN texts[1]
    ELSE texts[1] \o <<" ">> \o JoinWithSpace(Tail(texts))

(* the fragments of a line that belong to column c, as the line orders them *)
FragmentsOfColumn(items, c) == SelectSeq(items, LAMBDA it : ColumnOfFragment(it.x) = c)

KeptLines == SelectSeq(LinesAfterHeader, LAMBDA e : ~LooksRepeated(e) /\ ~DroppedOtherwise(e))

(* C27: in every data row each fragment of the visual row is in exactly one
   cell, the cell of the column whose boundary is nearest to the fragment (the
   lower column on a tie), and a cell is the texts of its fragments joined with
   one space in increasing horizontal position. *)
C27_NearestColumnJoined ==
    RowsCollected =>
        LET kept == KeptLines
        IN  /\ Len(dataRows) = Len(kept)
            /\ \A k \in 1..Len(kept) :
                  LET items == kept[k].line.items
                  IN  /\ \A j \in 1..(Len(items) - 1) : items[j].x <= items[j + 1].x
                      /\ Len(dataRows[k]) = Len(colBoundaries)
                      /\ \A c \in 1..Len(colBoundaries) :
                            LET own == FragmentsOfColumn(items, c)
                            IN  dataRows[k][c] = JoinWithSpace([j \in 1..Len(own) |-> own[j].text])

(* a data row with a fragment half way between two boundaries and a cell of
   several fragments *)
C27_Witness ==
    /\ pdfPc = "returned"
    /\ Len(colBoundaries) > 1
    /\ \E k \in 1..Len(KeptLines) :
          LET items == KeptLines[k].line.items
          IN  /\ k <= Len(dataRows)
              /\ \E j \in 1..Len(items) : \E c \in 1..(Len(colBoundaries) - 1) :
                    /\ Abs(items[j].x - colBoundaries[c]) = Abs(items[j].x - colBoundaries[c + 1])
                    /\ ColumnOfFragment(items[j].x) = c
              /\ \E c \in 1..Len(colBoundaries) : Len(FragmentsOfColumn(items, c)) > 1

-----------------------------------------------------------------------------
FuzzyDone == pc \in {"build", "summary", "done"}

(* C28: a key that the fuzzy rescue aliases occurs in exactly one file, and the
   key it is aliased to is found in another file; it is never a key that occurs
   only in the file of the aliased key. *)
C28_AliasFoundInAnotherFile ==
    FuzzyDone =>
        \A j \in 1..Len(fuzzyMatched) :
            /\ Cardinality(FilesHolding(fuzzyMatched[j].key)) = 1
            /\ FilesHolding(fuzzyMatched[j].value) \ FilesHolding(fuzzyMatched[j].key) # {}

-----------------------------------------------------------------------------
(* the output records that stand for a key: the record of the key itself or of
   the key it is aliased to *)
RecordsOfKey(k) ==
    {j \in 1..Len(results) : results[j].keyValue \in {k, FuzzyGet(fuzzyMatched, k)}}

(* C29: every distinct non-empty normalized key of any file is represented in
   exactly one output record, the record of the key itself or of the key it is
   aliased to; no key is dropped and none is reported in two records, whatever
   chains the aliases form and in whatever order the keys are first seen. *)
C29_EveryKeyInOneRecord ==
    Done => \A k \in AllFileKeys : Cardinality(RecordsOfKey(k)) = 1

-----------------------------------------------------------------------------
(* the header of the column compareMultiFiles keys on: the unified headers at
   the clamped key index (structured-differ.ts line 18) *)
KeyHeaderUsed ==
    IF result.headers = <<>> THEN Absent
    ELSE result.headers[Min(keyColumnIndex, Len(result.headers) - 1) + 1]

(* C30: the column compareMultiFiles uses as key has the same header name, up
   to the normalization of header names, as the column the user selected in the
   preview and that the record stores as keyColumn; also when the first file
   has several tables or repeated header names. *)
C30_KeyColumnIsSelectedColumn ==
    step = "result" => normalizeHeader(KeyHeaderUsed) = normalizeHeader(result.keyColumn)

====
